---- MODULE Spec2Model ----
(***************************************************************************)
(* Booking / payment flow of the studio site:                              *)
(*   - the Stripe webhook reconciler   (app/api/webhook/route.ts)          *)
(*   - the checkout initiator (app/api/create-checkout-session/route.ts)   *)
(*   - the request schema              (lib/validations/checkout.ts)       *)
(*   - the API error handler           (lib/api/error-handler.ts)          *)
(*   - the back-office BookingsService (src/bookings/bookings.service.ts)  *)
(*   - the back-office CoursesService  (src/courses/courses.service.ts)    *)
(* Every request is a process that is suspended at each database or        *)
(* gateway call; one action of the model is the code between two awaits.   *)
(* The store is PostgreSQL behind Prisma; prisma.$transaction is opened    *)
(* without an isolationLevel, so its statements run READ COMMITTED: a      *)
(* count inside the transaction takes no lock, and another transaction may *)
(* commit between the count and the insert.                                *)
(***************************************************************************)
EXTENDS Integers, Sequences, FiniteSets, TLC

\* ---------------------------------------------------------------- bounds
MaxHooks == 2        \* webhook deliveries (each slot receives one request)
MaxCheckouts == 2    \* create-checkout-session requests (one per slot)
MaxPaid == 1         \* deliveries of paid sessions in the checkout flow
MaxCalls == 3        \* BookingsService calls (one per slot)
MaxDesk == 1         \* BookingsService calls made while the online flow runs
MaxApi == 2          \* requests to routes wrapped in withAuth / withAdminAuth
MaxClock == 4        \* the last hour the clock reaches
MaxLogins == 2       \* AuthService.authenticateUser calls (one per slot)
MaxRequests == 2     \* requests seen by the middleware (one per slot)

Hooks == 1..MaxHooks
Checkouts == 1..MaxCheckouts
Calls == 1..MaxCalls

\* ------------------------------------------------------------ identifiers
\* ids are strings; "c0"/"u0" are well-formed ids that name no row,
\* "" is an absent (falsy) value and "x" is a string that is not a UUID.
CourseIds == {"c1", "c2"}
UserIds == {"u1", "u2"}
UuidStrings == {"c1", "c2", "c0", "u1", "u2", "u0"}

\* ------------------------------------------------------------------ dates
\* A date travels as a string and is compared as an instant (new Date(s)).
\* NaN is the time value of an Invalid Date.
NaN == -1
Now == 1

\* new Date(s).getTime(): two spellings of one instant parse to the same value
ParseDate(s) ==
    CASE s = "T0Z" -> 0
      [] s = "TnowZ" -> Now
      [] s = "T1Z" -> 2
      [] s = "T1.000Z" -> 2
      [] s = "T1+00:00" -> 2
      [] s = "T2Z" -> 3
      [] OTHER -> NaN

\* z.string().datetime(): ISO 8601 with a Z suffix, any sub-second precision,
\* no offset
IsIsoDatetime(s) == s \in {"T0Z", "TnowZ", "T1Z", "T1.000Z", "T2Z"}

\* z.string().uuid()
IsUuid(s) == s \in UuidStrings

\* ----------------------------------------------------------------- errors
NoError == [class |-> "none", statusCode |-> 0, message |-> ""]
ApiError(code, msg) == [class |-> "ApiError", statusCode |-> code, message |-> msg]
PlainError(msg) == [class |-> "Error", statusCode |-> 0, message |-> msg]
ZodError == [class |-> "ZodError", statusCode |-> 0, message |-> "invalid"]
\* a gateway failure that reaches the handler without the Stripe error type
StripeError_Untyped == [class |-> "Error", statusCode |-> 0, message |-> "stripe"]

\* an error of the Stripe SDK: its type starts with 'Stripe'
StripeError == [class |-> "StripeError", statusCode |-> 0, message |-> "stripe"]

\* a Prisma.PrismaClientKnownRequestError with its code
PrismaError(code) ==
    [class |-> "PrismaClientKnownRequestError", statusCode |-> 0, message |-> code]

unauthorized(msg) == ApiError(401, msg)
forbidden(msg) == ApiError(403, msg)
notFound(msg) == ApiError(404, msg)
conflict(msg) == ApiError(409, msg)

\* a handler that answers 200 to an error it does not recognise
handle_AcceptGeneric(error) ==
    CASE error.class = "ZodError" -> 400
      [] error.class = "ApiError" -> error.statusCode
      [] error.class = "StripeError" -> 502
      [] OTHER -> 200

\* ApiErrorHandler.handle: the HTTP status of the response built for an error
handle(error) ==
    CASE error.class = "ZodError" -> 400
      [] error.class = "ApiError" -> error.statusCode
      [] error.class = "StripeError" -> 502
      [] OTHER -> 500

\* ------------------------------------------------------------------ state
VARIABLES
    courses,     \* Course table: id -> [capacity, price]
    users,       \* User table: set of ids
    bookings,    \* Booking table: set of rows
    nextId,      \* id given to the next inserted Booking row
    env,         \* process environment: which settings are configured
    hook,        \* webhook requests: slot -> request state
    co,          \* create-checkout-session requests: slot -> request state
    sessions,    \* payment sessions opened with the gateway
    svc,         \* BookingsService calls: slot -> call state
    api,         \* requests to routes wrapped in withAuth / withAdminAuth
    accounts,    \* User table: id -> [email, password, role, isActive, lastLoginAt]
    jwt,         \* session-token cookies: cookie -> the JWT it holds
    clock,       \* Date.now(), in hours
    login,       \* AuthService.authenticateUser calls: slot -> call state
    mw,          \* requests seen by the middleware: slot -> request and response
    rng          \* number of calls of randomBytes so far

\* the state of the authentication layer
authVars == <<api, accounts, jwt, clock, login, mw, rng>>

vars == <<courses, users, bookings, nextId, env, hook, co, sessions, svc, authVars>>

\* --------------------------------------------------------------- queries
\* prisma.booking.count({ where: { courseId, date, status: 'CONFIRMED' } })
ConfirmedCount(c, d) ==
    Cardinality({b \in bookings : b.courseId = c /\ b.date = d /\ b.status = "CONFIRMED"})

\* the lookup with a status list that leaves out CONFIRMED
ExistingBookings_PendingOnly(c, u, d) ==
    {b \in bookings : b.courseId = c /\ b.userId = u /\ b.date = d
                      /\ b.status \in {"PENDING"}}

\* prisma.booking.findFirst({ where: { courseId, userId, date,
\*                                     status: { in: ['CONFIRMED','PENDING'] } } })
ExistingBookings(c, u, d) ==
    {b \in bookings : b.courseId = c /\ b.userId = u /\ b.date = d
                      /\ b.status \in {"CONFIRMED", "PENDING"}}

\* ------------------------------------------------------- webhook requests
NullAmount == -1

Pay1 == [payment_intent |-> "pi_1", amount_total |-> 2500, currency |-> "eur"]
Pay2 == [payment_intent |-> "pi_2", amount_total |-> 1999, currency |-> "usd"]
Pay3 == [payment_intent |-> "pi_3", amount_total |-> NullAmount, currency |-> ""]

NoMetadata == [present |-> FALSE, courseId |-> "", date |-> "", userId |-> "", bookingType |-> ""]
Meta(c, d, u, t) == [present |-> TRUE, courseId |-> c, date |-> d, userId |-> u, bookingType |-> t]
Completed(m, p) == [sig |-> "good", type |-> "checkout.session.completed", metadata |-> m, pay |-> p]

\* completed sessions whose metadata passes validateSessionMetadata: two
\* users on one slot of c1 (the date spelled in two ways), another slot of
\* c1, two users on c2, a course and a user that do not exist
ValidCompleted ==
    { Completed(Meta("c1", "T1Z", "u1", "course_booking"), Pay1),
      Completed(Meta("c1", "T1.000Z", "u2", "course_booking"), Pay2),
      Completed(Meta("c1", "T2Z", "u1", "course_booking"), Pay3),
      Completed(Meta("c2", "T1Z", "u1", "course_booking"), Pay2),
      Completed(Meta("c2", "T1+00:00", "u2", "course_booking"), Pay1),
      Completed(Meta("c0", "T1Z", "u1", "course_booking"), Pay1),
      Completed(Meta("c1", "T1Z", "u0", "course_booking"), Pay1) }

InvalidMetadata ==
    { NoMetadata,
      Meta("", "T1Z", "u1", "course_booking"),
      Meta("c1", "", "u1", "course_booking"),
      Meta("c1", "T1Z", "", "course_booking"),
      Meta("c1", "T1Z", "u1", "gift_card"),
      Meta("c1", "garbage", "u1", "course_booking") }

\* What arrives at POST /api/webhook: the stripe-signature header
\* ("none" absent, "bad" does not verify, "good" verifies) and the event
\* carried by the body.
HookRequests ==
    { [sig |-> s, type |-> "checkout.session.completed",
       metadata |-> Meta("c1", "T1Z", "u1", "course_booking"), pay |-> Pay1] :
         s \in {"none", "bad"} }
    \cup
    { [sig |-> "good", type |-> t, metadata |-> NoMetadata, pay |-> Pay1] :
         t \in {"checkout.session.expired", "payment_intent.payment_failed", "customer.created"} }
    \cup
    { Completed(m, Pay1) : m \in InvalidMetadata }
    \cup
    ValidCompleted

NoRequest == [sig |-> "none", type |-> "", metadata |-> NoMetadata, pay |-> Pay1]

\* a validation that does not try to parse the date
validateSessionMetadata_DateUnparsed(metadata) ==
    IF ~metadata.present THEN PlainError("metadata missing")
    ELSE IF metadata.courseId = "" THEN PlainError("courseId invalid")
    ELSE IF metadata.date = "" THEN PlainError("date invalid")
    ELSE IF metadata.userId = "" THEN PlainError("userId invalid")
    ELSE IF metadata.bookingType # "course_booking" THEN PlainError("bookingType invalid")
    ELSE NoError

\* StripeWebhookService.validateSessionMetadata: the error it throws, or NoError
validateSessionMetadata(metadata) ==
    IF ~metadata.present THEN PlainError("metadata missing")
    ELSE IF metadata.courseId = "" THEN PlainError("courseId invalid")
    ELSE IF metadata.date = "" THEN PlainError("date invalid")
    ELSE IF metadata.userId = "" THEN PlainError("userId invalid")
    ELSE IF metadata.bookingType # "course_booking" THEN PlainError("bookingType invalid")
    ELSE IF ParseDate(metadata.date) = NaN THEN PlainError("date format invalid")
    ELSE NoError

\* session.amount_total ? session.amount_total / 100 : 0   (cents -> EUR,
\* kept as whole euros and hundredths)
AmountFromSession(pay) ==
    IF pay.amount_total = NullAmount \/ pay.amount_total = 0
    THEN [euros |-> 0, cents |-> 0]
    ELSE [euros |-> pay.amount_total \div 100, cents |-> pay.amount_total % 100]

\* session.currency || 'eur'
CurrencyFromSession(pay) == IF pay.currency = "" THEN "eur" ELSE pay.currency

\* a row whose amount and currency are recomputed from the course
NewBooking_PriceFromCourse(id, metadata, pay) ==
    [id |-> id,
     courseId |-> metadata.courseId,
     userId |-> metadata.userId,
     date |-> ParseDate(metadata.date),
     status |-> "CONFIRMED",
     paymentId |-> pay.payment_intent,
     paymentStatus |-> "PAID",
     amount |-> courses[metadata.courseId].price,
     currency |-> "eur"]

\* the data of tx.booking.create
NewBooking(id, metadata, pay) ==
    [id |-> id,
     courseId |-> metadata.courseId,
     userId |-> metadata.userId,
     date |-> ParseDate(metadata.date),
     status |-> "CONFIRMED",
     paymentId |-> pay.payment_intent,
     paymentStatus |-> "PAID",
     amount |-> AmountFromSession(pay),
     currency |-> CurrencyFromSession(pay)]

IdleHook ==
    [pc |-> "idle", req |-> NoRequest, capacity |-> 0, status |-> 0,
     error |-> NoError, logs |-> {}, db |-> 0, created |-> 0, startId |-> 0]

\* the catch block of POST (after the one of handleCheckoutSessionCompleted,
\* when the error comes from there), then ApiErrorHandler.handle: each of
\* them logs with console.error
HookFail(h, err) ==
    [h EXCEPT !.pc = "done", !.error = err, !.status = handle(err),
              !.logs = @ \cup {"error"}]

HookOk(h, level) ==
    [h EXCEPT !.pc = "done", !.status = 200, !.logs = @ \cup {level}]

\* a check of the presence of the header only (constructEvent skipped)
verifySignature_PresenceOnly(req) ==
    IF req.sig = "none" THEN unauthorized("signature missing")
    ELSE IF ~env.webhookSecret THEN PlainError("secret not configured")
    ELSE NoError

\* POST, lines 209-229: the error thrown before the event is dispatched
verifySignature(req) ==
    IF req.sig = "none" THEN unauthorized("signature missing")
    ELSE IF ~env.webhookSecret THEN PlainError("secret not configured")
    ELSE IF req.sig # "good" THEN unauthorized("signature invalid")
    ELSE NoError

\* a POST without the switch on the event type: every verified event is
\* handled as a completed session
POST_EveryEventCompleted(r, req) ==
    /\ hook[r].pc = "idle"
    /\ \A x \in Hooks : x < r => hook[x].pc # "idle"
    /\ LET h == [IdleHook EXCEPT !.req = req, !.startId = nextId] IN
       hook' = [hook EXCEPT ![r] =
         IF verifySignature(req) # NoError THEN HookFail(h, verifySignature(req))
         ELSE IF validateSessionMetadata(req.metadata) # NoError
              THEN HookFail(h, validateSessionMetadata(req.metadata))
         ELSE [h EXCEPT !.pc = "findCourse"]]
    /\ UNCHANGED <<courses, users, bookings, nextId, env, co, sessions, svc, authVars>>

\* POST, up to the first database call: signature, secret, constructEvent,
\* the switch on the event type and validateSessionMetadata.  Requests are
\* numbered in their order of arrival.
POST(r, req) ==
    /\ hook[r].pc = "idle"
    /\ \A x \in Hooks : x < r => hook[x].pc # "idle"
    /\ LET h == [IdleHook EXCEPT !.req = req, !.startId = nextId] IN
       hook' = [hook EXCEPT ![r] =
         IF verifySignature(req) # NoError THEN HookFail(h, verifySignature(req))
         ELSE IF req.type = "checkout.session.completed" THEN
              IF validateSessionMetadata(req.metadata) # NoError
              THEN HookFail(h, validateSessionMetadata(req.metadata))
              ELSE [h EXCEPT !.pc = "findCourse"]
         ELSE IF req.type = "checkout.session.expired" THEN HookOk(h, "info")
         ELSE IF req.type = "payment_intent.payment_failed" THEN HookOk(h, "warn")
         ELSE HookOk(h, "info")]
    /\ UNCHANGED <<courses, users, bookings, nextId, env, co, sessions, svc, authVars>>

\* createConfirmedBooking: prisma.course.findUnique
FindCourse(r) ==
    /\ hook[r].pc = "findCourse"
    /\ LET h == [hook[r] EXCEPT !.db = @ + 1]
           id == h.req.metadata.courseId IN
       hook' = [hook EXCEPT ![r] =
         IF id \notin DOMAIN courses THEN HookFail(h, PlainError("course not found"))
         ELSE [h EXCEPT !.pc = "findUser", !.capacity = courses[id].capacity]]
    /\ UNCHANGED <<courses, users, bookings, nextId, env, co, sessions, svc, authVars>>

\* createConfirmedBooking: prisma.user.findUnique
FindUser(r) ==
    /\ hook[r].pc = "findUser"
    /\ LET h == [hook[r] EXCEPT !.db = @ + 1] IN
       hook' = [hook EXCEPT ![r] =
         IF h.req.metadata.userId \notin users THEN HookFail(h, PlainError("user not found"))
         ELSE [h EXCEPT !.pc = "findExisting"]]
    /\ UNCHANGED <<courses, users, bookings, nextId, env, co, sessions, svc, authVars>>

\* a lookup that promotes the booking it finds: its PENDING rows become
\* CONFIRMED and PAID
FindExisting_Promote(r) ==
    /\ hook[r].pc = "findExisting"
    /\ LET h == [hook[r] EXCEPT !.db = @ + 1]
           m == h.req.metadata
           found == ExistingBookings(m.courseId, m.userId, ParseDate(m.date)) IN
       /\ hook' = [hook EXCEPT ![r] =
            IF found # {} THEN [HookOk(h, "warn") EXCEPT !.logs = @ \cup {"info"}]
            ELSE [h EXCEPT !.pc = "txCount"]]
       /\ bookings' = (bookings \ found) \cup
            {[b EXCEPT !.status = "CONFIRMED", !.paymentStatus = "PAID"] : b \in found}
    /\ UNCHANGED <<courses, users, nextId, env, co, sessions, svc, authVars>>

\* createConfirmedBooking: prisma.booking.findFirst and the early return
FindExisting(r) ==
    /\ hook[r].pc = "findExisting"
    /\ LET h == [hook[r] EXCEPT !.db = @ + 1]
           m == h.req.metadata
           found == ExistingBookings(m.courseId, m.userId, ParseDate(m.date)) IN
       hook' = [hook EXCEPT ![r] =
         IF found # {} THEN [HookOk(h, "warn") EXCEPT !.logs = @ \cup {"info"}]
         ELSE [h EXCEPT !.pc = "txCount"]]
    /\ UNCHANGED <<courses, users, bookings, nextId, env, co, sessions, svc, authVars>>

\* a comparison that lets the count reach the capacity
capacityReached_StrictlyGreater(bookingCount, capacity) == bookingCount > capacity

\* if (bookingCount >= course.capacity)
capacityReached(bookingCount, capacity) == bookingCount >= capacity

\* the transaction's first statement, tx.booking.count, and the comparison
\* with the capacity read by FindCourse; a throw rolls the transaction back
TxCount(r) ==
    /\ hook[r].pc = "txCount"
    /\ LET h == [hook[r] EXCEPT !.db = @ + 1]
           m == h.req.metadata
           bookingCount == ConfirmedCount(m.courseId, ParseDate(m.date)) IN
       hook' = [hook EXCEPT ![r] =
         IF capacityReached(bookingCount, h.capacity)
         THEN HookFail(h, PlainError("course full"))
         ELSE [h EXCEPT !.pc = "txCreate"]]
    /\ UNCHANGED <<courses, users, bookings, nextId, env, co, sessions, svc, authVars>>

\* the transaction's second statement, tx.booking.create, the commit and
\* the 200 response; the insert of a row whose course is gone breaks the
\* foreign key (P2003) and the transaction is rolled back
TxCreate(r) ==
    /\ hook[r].pc = "txCreate"
    /\ IF hook[r].req.metadata.courseId \in DOMAIN courses
       THEN /\ bookings' = bookings \cup
                   {NewBooking(nextId, hook[r].req.metadata, hook[r].req.pay)}
            /\ nextId' = nextId + 1
            /\ hook' = [hook EXCEPT ![r] =
                 [HookOk([hook[r] EXCEPT !.db = @ + 1], "info") EXCEPT !.created = nextId]]
       ELSE /\ hook' = [hook EXCEPT ![r] =
                 HookFail([hook[r] EXCEPT !.db = @ + 1], PrismaError("P2003"))]
            /\ UNCHANGED <<bookings, nextId>>
    /\ UNCHANGED <<courses, users, env, co, sessions, svc, authVars>>

\* ------------------------------------------------------ checkout requests
\* A request body: the three fields of the schema and, possibly, an
\* amount added by the client (NoAmount when the key is absent).
NoAmount == -1
Body(c, d, u, a) == [courseId |-> c, date |-> d, userId |-> u, amount |-> a]
NoBody == Body("", "", "", NoAmount)
NoData == [courseId |-> "", date |-> "", userId |-> ""]

\* What arrives at POST /api/create-checkout-session: the id of the user of
\* the server session ("" when there is none) and the JSON body.
CheckoutRequests ==
    { [auth |-> "u1", body |-> Body("c1", "T1Z", "u1", NoAmount)],
      [auth |-> "u1", body |-> Body("c1", "T1Z", "u1", 1)],
      [auth |-> "u2", body |-> Body("c1", "T1.000Z", "u2", NoAmount)],
      [auth |-> "u1", body |-> Body("c2", "T2Z", "u1", 1)],
      [auth |-> "u1", body |-> Body("c0", "T1Z", "u1", NoAmount)],
      [auth |-> "u1", body |-> Body("c1", "T1Z", "u2", NoAmount)],
      [auth |-> "u1", body |-> Body("c0", "T1Z", "u2", NoAmount)],
      [auth |-> "u1", body |-> Body("c1", "T0Z", "u1", NoAmount)],
      [auth |-> "u1", body |-> Body("c1", "garbage", "u2", NoAmount)],
      [auth |-> "u1", body |-> Body("c1", "TnowZ", "u1", NoAmount)],
      [auth |-> "u1", body |-> Body("c1", "T1+00:00", "u1", NoAmount)],
      [auth |-> "u1", body |-> Body("x", "T1Z", "u1", NoAmount)],
      [auth |-> "", body |-> Body("c1", "T1Z", "u1", NoAmount)] }

\* a schema without the refinement on the date being in the future
SchemaAccepts_AnyDate(body) ==
    /\ IsUuid(body.courseId)
    /\ IsIsoDatetime(body.date)
    /\ IsUuid(body.userId)

\* createCheckoutSessionSchema accepts the body
SchemaAccepts(body) ==
    /\ IsUuid(body.courseId)
    /\ IsIsoDatetime(body.date)
    /\ ParseDate(body.date) > Now
    /\ IsUuid(body.userId)

\* createCheckoutSessionSchema.parse: z.object keeps the declared keys only
SchemaParse(body) ==
    [courseId |-> body.courseId, date |-> body.date, userId |-> body.userId]

\* Math.round(course.price) * 100: rounded to whole euros first
UnitAmount_RoundFirst(price) ==
    (IF price.cents >= 50 THEN price.euros + 1 ELSE price.euros) * 100

\* Math.round(course.price * 100): EUR -> cents
UnitAmount(price) == price.euros * 100 + price.cents

\* a count of the CONFIRMED bookings alone
ActiveCount_ConfirmedOnly(c, d) ==
    Cardinality({b \in bookings : b.courseId = c /\ b.date = d
                                  /\ b.status \in {"CONFIRMED"}})

\* a count that leaves the CONFIRMED bookings out
ActiveCount_PendingOnly(c, d) ==
    Cardinality({b \in bookings : b.courseId = c /\ b.date = d
                                  /\ b.status \in {"PENDING"}})

\* prisma.booking.count({ where: { courseId, date,
\*                                 status: { in: ['CONFIRMED','PENDING'] } } })
ActiveCount(c, d) ==
    Cardinality({b \in bookings : b.courseId = c /\ b.date = d
                                  /\ b.status \in {"CONFIRMED", "PENDING"}})

\* a session whose metadata leaves the bookingType out
NewSession_NoBookingType(k, data, course) ==
    [id |-> k,
     unit_amount |-> UnitAmount(course.price),
     currency |-> "eur",
     quantity |-> 1,
     metadata |-> Meta(data.courseId, data.date, data.userId, "")]

\* the argument of stripe.checkout.sessions.create
NewSession(k, data, course) ==
    [id |-> k,
     unit_amount |-> UnitAmount(course.price),
     currency |-> "eur",
     quantity |-> 1,
     metadata |-> Meta(data.courseId, data.date, data.userId, "course_booking")]

NoCourse == [id |-> "", capacity |-> 0, price |-> [euros |-> 0, cents |-> 0]]

IdleCheckout ==
    [pc |-> "idle", auth |-> "", body |-> NoBody, data |-> NoData, course |-> NoCourse,
     bookingCount |-> 0, status |-> 0, error |-> NoError, db |-> 0]

\* the catch block of handleCreateCheckoutSession / withAuth
CheckoutFail(q, err) == [q EXCEPT !.pc = "done", !.error = err, !.status = handle(err)]

\* a createSession that lets a caller book for somebody else
selfBookingCheck_Never(data, userId) == NoError

\* createSession, lines 160-163: the self-booking check
selfBookingCheck(data, userId) ==
    IF data.userId # userId THEN forbidden("self booking only") ELSE NoError

\* a createSession that looks the course up before the self-booking check
CreateCheckoutSession_CourseFirst(k, req) ==
    /\ co[k].pc = "idle"
    /\ \A x \in Checkouts : x < k => co[x].pc # "idle"
    /\ LET q == [IdleCheckout EXCEPT !.auth = req.auth, !.body = req.body] IN
       co' = [co EXCEPT ![k] =
         IF req.auth = "" THEN CheckoutFail(q, unauthorized("session invalid"))
         ELSE IF ~SchemaAccepts(req.body) THEN CheckoutFail(q, ZodError)
         ELSE IF req.body.courseId \notin DOMAIN courses
              THEN CheckoutFail([q EXCEPT !.data = SchemaParse(req.body), !.db = 1],
                                notFound("course not found"))
         ELSE IF selfBookingCheck(SchemaParse(req.body), req.auth) # NoError
              THEN CheckoutFail([q EXCEPT !.data = SchemaParse(req.body), !.db = 1],
                                selfBookingCheck(SchemaParse(req.body), req.auth))
         ELSE [q EXCEPT !.data = SchemaParse(req.body), !.pc = "getCourseData"]]
    /\ UNCHANGED <<courses, users, bookings, nextId, env, hook, sessions, svc, authVars>>

\* handleCreateCheckoutSession and createSession up to the first database
\* call, for the user id withAuth passes on ("" when it rejected the request:
\* the response is then its 401).  Requests are numbered in their order of
\* arrival.
handleCreateCheckoutSession(k, req) ==
    /\ co[k].pc = "idle"
    /\ \A x \in Checkouts : x < k => co[x].pc # "idle"
    /\ LET q == [IdleCheckout EXCEPT !.auth = req.auth, !.body = req.body] IN
       co' = [co EXCEPT ![k] =
         IF req.auth = "" THEN CheckoutFail(q, unauthorized("session invalid"))
         ELSE IF ~SchemaAccepts(req.body) THEN CheckoutFail(q, ZodError)
         ELSE IF selfBookingCheck(SchemaParse(req.body), req.auth) # NoError
              THEN CheckoutFail([q EXCEPT !.data = SchemaParse(req.body)],
                                selfBookingCheck(SchemaParse(req.body), req.auth))
         ELSE [q EXCEPT !.data = SchemaParse(req.body), !.pc = "getCourseData"]]
    /\ UNCHANGED <<courses, users, bookings, nextId, env, hook, sessions, svc>>

\* POST /api/create-checkout-session with the session lookup already made
CreateCheckoutSession(k, req) ==
    /\ handleCreateCheckoutSession(k, req)
    /\ UNCHANGED authVars

\* CheckoutSessionService.getCourseData
GetCourseData(k) ==
    /\ co[k].pc = "getCourseData"
    /\ LET q == [co[k] EXCEPT !.db = @ + 1]
           id == q.data.courseId IN
       co' = [co EXCEPT ![k] =
         IF id \notin DOMAIN courses THEN CheckoutFail(q, notFound("course not found"))
         ELSE [q EXCEPT !.pc = "availCount",
                        !.course = [id |-> id, capacity |-> courses[id].capacity,
                                    price |-> courses[id].price]]]
    /\ UNCHANGED <<courses, users, bookings, nextId, env, hook, sessions, svc, authVars>>

\* checkAvailability: prisma.booking.count
AvailCount(k) ==
    /\ co[k].pc = "availCount"
    /\ co' = [co EXCEPT ![k] =
         [@ EXCEPT !.db = @ + 1, !.pc = "availCourse",
                   !.bookingCount = ActiveCount(co[k].data.courseId,
                                                ParseDate(co[k].data.date))]]
    /\ UNCHANGED <<courses, users, bookings, nextId, env, hook, sessions, svc, authVars>>

\* checkAvailability: prisma.course.findUnique and the comparison, then
\* createStripeSession up to the gateway call
AvailCourse(k) ==
    /\ co[k].pc = "availCourse"
    /\ LET q == [co[k] EXCEPT !.db = @ + 1]
           id == q.data.courseId IN
       co' = [co EXCEPT ![k] =
         IF id \notin DOMAIN courses THEN CheckoutFail(q, notFound("course not found"))
         ELSE IF capacityReached(q.bookingCount, courses[id].capacity)
              THEN CheckoutFail(q, conflict("course full"))
         ELSE IF ~env.baseUrl THEN CheckoutFail(q, PlainError("base url not configured"))
         ELSE [q EXCEPT !.pc = "stripe"]]
    /\ UNCHANGED <<courses, users, bookings, nextId, env, hook, sessions, svc, authVars>>

\* stripe.checkout.sessions.create succeeds: the session is opened, 201
StripeCreate(k) ==
    /\ co[k].pc = "stripe"
    /\ sessions' = sessions \cup {NewSession(k, co[k].data, co[k].course)}
    /\ co' = [co EXCEPT ![k] = [@ EXCEPT !.pc = "done", !.status = 201]]
    /\ UNCHANGED <<courses, users, bookings, nextId, env, hook, svc, authVars>>

\* stripe.checkout.sessions.create throws a Stripe error
StripeFail(k) ==
    /\ co[k].pc = "stripe"
    /\ co' = [co EXCEPT ![k] = CheckoutFail(@, StripeError)]
    /\ UNCHANGED <<courses, users, bookings, nextId, env, hook, sessions, svc, authVars>>

\* The gateway's checkout.session.completed event for a session the
\* initiator opened and the customer paid
PaidEvent(s) ==
    Completed(s.metadata,
              [payment_intent |-> "pi_1", amount_total |-> s.unit_amount * s.quantity,
               currency |-> s.currency])

\* -------------------------------------------------------- BookingsService
\* the exceptions of @nestjs/common the service throws
NotFoundException(msg) == [class |-> "NotFoundException", statusCode |-> 404, message |-> msg]
BadRequestException(msg) == [class |-> "BadRequestException", statusCode |-> 400, message |-> msg]

\* CreateBookingDto
CreateDto(u, c, d, s) == [userId |-> u, courseId |-> c, date |-> d, status |-> s]
NoDto == CreateDto("", "", "", "")

\* The bodies of POST /api/bookings: two users taking the one place of a
\* slot of c1 as CONFIRMED, holds (PENDING) on a slot of c1 and on a slot
\* of c2, and a course that does not exist
CreateDtos ==
    { CreateDto("u1", "c1", "T1Z", "CONFIRMED"),
      CreateDto("u2", "c1", "T1.000Z", "CONFIRMED"),
      CreateDto("u2", "c1", "T1Z", "PENDING"),
      CreateDto("u1", "c2", "T2Z", "PENDING"),
      CreateDto("u1", "c0", "T1Z", "PENDING") }

\* UpdateBookingDto: the fields of a booking a PUT may carry ("" when the
\* key is absent)
UpdateDto(s, d) == [status |-> s, date |-> d]
NoUpdate == UpdateDto("", "")

UpdateDtos ==
    { UpdateDto("CONFIRMED", ""),
      UpdateDto("CANCELLED", ""),
      UpdateDto("", "T2Z") }

\* the row of prisma.booking.create({ data: createBookingDto }): the
\* columns the dto does not name take their defaults
ServiceBooking(id, dto) ==
    [id |-> id,
     courseId |-> dto.courseId,
     userId |-> dto.userId,
     date |-> ParseDate(dto.date),
     status |-> dto.status,
     paymentId |-> "",
     paymentStatus |-> "PENDING",
     amount |-> [euros |-> 0, cents |-> 0],
     currency |-> "eur"]

\* the row of prisma.booking.update({ where: { id }, data: updateBookingDto })
UpdatedBooking(b, dto) ==
    [b EXCEPT !.status = IF dto.status = "" THEN @ ELSE dto.status,
              !.date = IF dto.date = "" THEN @ ELSE ParseDate(dto.date)]

IdleCall ==
    [pc |-> "idle", op |-> "", dto |-> NoDto, id |-> 0, patch |-> NoUpdate,
     error |-> NoError, created |-> 0]

CallFail(s, err) == [s EXCEPT !.pc = "done", !.error = err]

\* a capacity test that admits one booking more than the capacity
atFullCapacity_OffByOne(length, capacity) == length > capacity

\* if (course.bookings.length >= course.capacity)
atFullCapacity(length, capacity) == length >= capacity

\* BookingsService.create up to prisma.booking.create: the course is read
\* with its CONFIRMED bookings of the date, then the two checks.  Calls
\* are numbered in their order of arrival.
BookingsService_create(i, dto) ==
    /\ svc[i].pc = "idle"
    /\ \A x \in Calls : x < i => svc[x].pc # "idle"
    /\ LET s == [IdleCall EXCEPT !.op = "create", !.dto = dto] IN
       svc' = [svc EXCEPT ![i] =
         IF dto.courseId \notin DOMAIN courses
         THEN CallFail(s, NotFoundException("Course not found"))
         ELSE IF atFullCapacity(ConfirmedCount(dto.courseId, ParseDate(dto.date)),
                                courses[dto.courseId].capacity)
              THEN CallFail(s, BadRequestException("Course is at full capacity"))
         ELSE [s EXCEPT !.pc = "insert"]]
    /\ UNCHANGED <<courses, users, bookings, nextId, env, hook, co, sessions, authVars>>

\* BookingsService.create: prisma.booking.create, a statement of its own
BookingsService_insert(i) ==
    /\ svc[i].pc = "insert"
    /\ bookings' = bookings \cup {ServiceBooking(nextId, svc[i].dto)}
    /\ nextId' = nextId + 1
    /\ svc' = [svc EXCEPT ![i] = [@ EXCEPT !.pc = "done", !.created = nextId]]
    /\ UNCHANGED <<courses, users, env, hook, co, sessions, authVars>>

\* BookingsService.update: one prisma.booking.update; its failure (no row
\* with that id) is rethrown as NotFoundException
BookingsService_update(i, id, dto) ==
    /\ svc[i].pc = "idle"
    /\ \A x \in Calls : x < i => svc[x].pc # "idle"
    /\ LET s == [IdleCall EXCEPT !.op = "update", !.id = id, !.patch = dto]
           row == {b \in bookings : b.id = id} IN
       IF row = {}
       THEN /\ svc' = [svc EXCEPT ![i] = CallFail(s, NotFoundException("Booking not found"))]
            /\ bookings' = bookings
       ELSE /\ svc' = [svc EXCEPT ![i] = [s EXCEPT !.pc = "done"]]
            /\ bookings' = (bookings \ row) \cup {UpdatedBooking(b, dto) : b \in row}
    /\ UNCHANGED <<courses, users, nextId, env, hook, co, sessions, authVars>>

\* BookingsService.remove: one prisma.booking.delete, failing the same way
BookingsService_remove(i, id) ==
    /\ svc[i].pc = "idle"
    /\ \A x \in Calls : x < i => svc[x].pc # "idle"
    /\ LET s == [IdleCall EXCEPT !.op = "remove", !.id = id]
           row == {b \in bookings : b.id = id} IN
       IF row = {}
       THEN /\ svc' = [svc EXCEPT ![i] = CallFail(s, NotFoundException("Booking not found"))]
            /\ bookings' = bookings
       ELSE /\ svc' = [svc EXCEPT ![i] = [s EXCEPT !.pc = "done"]]
            /\ bookings' = bookings \ row
    /\ UNCHANGED <<courses, users, nextId, env, hook, co, sessions, authVars>>

\* --------------------------------------------------------- CoursesService
\* the capacities an UpdateCourseDto carries (CreateCourseDto: 1 to 50)
CourseCapacities == {1, 2}

\* CoursesService.update: one prisma.course.update; on an id that names no
\* course it fails (NotFoundException) and changes nothing
CoursesService_update(id, capacity) ==
    /\ courses' = IF id \in DOMAIN courses
                  THEN [courses EXCEPT ![id].capacity = capacity]
                  ELSE courses
    /\ UNCHANGED <<users, bookings, nextId, env, hook, co, sessions, svc, authVars>>

\* CoursesService.remove: one prisma.course.delete.  The bookings of the
\* course go with it when the relation cascades; when it restricts, the
\* delete of a course that has bookings fails (NotFoundException) and
\* changes nothing, as it does on an id that names no course.
CoursesService_remove(id) ==
    LET rows == {b \in bookings : b.courseId = id} IN
    /\ IF id \in DOMAIN courses /\ (rows = {} \/ env.onDeleteCascade)
       THEN /\ courses' = [c \in DOMAIN courses \ {id} |-> courses[c]]
            /\ bookings' = bookings \ rows
       ELSE UNCHANGED <<courses, bookings>>
    /\ UNCHANGED <<users, nextId, env, hook, co, sessions, svc, authVars>>

\* ----------------------------------------------------------- AuthMiddleware
Apis == 1..MaxApi

\* a JavaScript value of a session field: its type and its content
Str(s) == [t |-> "string", v |-> s]
Num(n) == [t |-> "number", v |-> n]
Undefined == [t |-> "undefined", v |-> ""]

\* !x is false
Truthy(x) ==
    CASE x.t = "string" -> x.v # ""
      [] x.t = "number" -> x.v \notin {"0", "NaN"}
      [] OTHER -> FALSE

SessionUser(id, email, role) == [id |-> id, email |-> email, role |-> role]
NoSessionUser == SessionUser(Undefined, Undefined, Undefined)

\* what getServerSession resolves to: null, or an object with or without user
NullSession == [kind |-> "null", hasUser |-> FALSE, user |-> NoSessionUser]
EmptySession == [kind |-> "object", hasUser |-> FALSE, user |-> NoSessionUser]
SessionOf(user) == [kind |-> "object", hasUser |-> TRUE, user |-> user]

\* the outcome of await getServerSession(authOptions): a session, or a throw
Returned(session) == [threw |-> FALSE, error |-> NoError, session |-> session]
Threw(error) == [threw |-> TRUE, error |-> error, session |-> NullSession]
NoLookup == Returned(NullSession)

\* the outcomes the wrappers are exercised with
ServerSessions ==
    { Returned(NullSession),
      Returned(EmptySession),
      Returned(SessionOf(SessionUser(Str("u1"), Str("u1@x"), Str("CLIENT")))),
      Returned(SessionOf(SessionUser(Str("u2"), Str("u2@x"), Str("ADMIN")))),
      Returned(SessionOf(SessionUser(Str(""), Str("u1@x"), Str("CLIENT")))),
      Returned(SessionOf(SessionUser(Num("42"), Str("u1@x"), Str("CLIENT")))),
      Returned(SessionOf(SessionUser(Undefined, Str("u1@x"), Str("ADMIN")))),
      Returned(SessionOf(SessionUser(Str("u1"), Str(""), Str("CLIENT")))),
      Returned(SessionOf(SessionUser(Str("u1"), Undefined, Str("ADMIN")))),
      Returned(SessionOf(SessionUser(Str("u1"), Str("u1@x"), Str("GUEST")))),
      Returned(SessionOf(SessionUser(Str("u1"), Str("u1@x"), Undefined))),
      Threw(PlainError("fetch failed")),
      Threw(PlainError("Session store unavailable")) }

\* error.message.includes('Session')
MentionsSession(message) ==
    message \in {"Session invalide ou expiree", "Session store unavailable"}

\* ------------------------------------------------------ accounts and tokens
\* bcrypt: the stored hash of a password, and bcrypt.compare
Hash(password) == <<"bcrypt", password>>
compare(password, hash) == hash = Hash(password)

\* the User rows the store starts with; lastLoginAt 0 is null
InitAccounts ==
    [u \in UserIds |->
       [email |-> IF u = "u1" THEN "u1@x" ELSE "u2@x",
        password |-> IF u = "u1" THEN Hash("pw1") ELSE Hash("pw2"),
        role |-> IF u = "u1" THEN "CLIENT" ELSE "ADMIN",
        isActive |-> TRUE,
        lastLoginAt |-> 0]]

\* Date.now() at the start, the epoch being 0; 60 * 60 * 1000 ms
StartClock == 2
Hour == 1

\* the JWT of a session-token cookie; {} has no sub, and lastCheck 0 is unset
Token(sub, email, role, lastCheck) ==
    [sub |-> sub, email |-> email, role |-> role, lastCheck |-> lastCheck]
EmptyToken == Token("", "", "", 0)

\* the browser that signed in, and the user it signed in as
Cookies == {"k1"}
Owner == [t \in Cookies |-> "u1"]

\* the token the jwt callback leaves at sign-in: role from the user, and the
\* first periodic check done at once
IssuedToken(u) ==
    Token(u, InitAccounts[u].email, InitAccounts[u].role, StartClock)

\* a lookup that does not read isActive
IsCurrentUser_IgnoresActive(sub) == sub \in users

\* AuthService.enrichUserSession found an active user for token.sub
IsCurrentUser(sub) == sub \in users /\ accounts[sub].isActive

\* callbacks.jwt on a request (no user, no account): the token it returns
jwtCallback(token) ==
    IF token.sub # "" /\ clock - token.lastCheck > Hour
    THEN IF IsCurrentUser(token.sub)
         THEN [token EXCEPT !.role = accounts[token.sub].role, !.lastCheck = clock]
         ELSE EmptyToken
    ELSE token

\* callbacks.session: the session NextAuth built from the token (name, email,
\* image), with id and role added from the user row, or {}
sessionCallback(token) ==
    LET email == IF token.email = "" THEN Undefined ELSE Str(token.email) IN
    IF token.sub # ""
    THEN IF IsCurrentUser(token.sub)
         THEN SessionOf(SessionUser(Str(token.sub), email, Str(accounts[token.sub].role)))
         ELSE EmptySession
    ELSE SessionOf(SessionUser(Undefined, email, Undefined))

\* IAuthenticatedUser
AuthUser(id, email, role) == [id |-> id, email |-> email, role |-> role]
NoAuthUser == AuthUser("", "", "")

\* AuthMiddleware.validateAndTransformUser: the error it throws, or NoError
validateAndTransformUser(sessionUser) ==
    IF ~Truthy(sessionUser.id) \/ sessionUser.id.t # "string"
    THEN PlainError("ID utilisateur invalide")
    ELSE IF ~Truthy(sessionUser.email) \/ sessionUser.email.t # "string"
    THEN PlainError("Email utilisateur invalide")
    ELSE IF ~Truthy(sessionUser.role) \/ sessionUser.role \notin {Str("ADMIN"), Str("CLIENT")}
    THEN PlainError("Role utilisateur invalide")
    ELSE NoError

\* AuthMiddleware.authenticate: the IAuthResult user, or the error thrown.
\* The catch block rethrows an error whose message includes 'Session' and
\* replaces every other one by a 401.
authenticate(lookup) ==
    LET thrown ==
          IF lookup.threw THEN lookup.error
          ELSE IF lookup.session.kind = "null" \/ ~lookup.session.hasUser
          THEN unauthorized("Session invalide ou expiree")
          ELSE validateAndTransformUser(lookup.session.user)
        u == lookup.session.user IN
    IF thrown = NoError
    THEN [error |-> NoError, user |-> AuthUser(u.id.v, u.email.v, u.role.v)]
    ELSE IF MentionsSession(thrown.message)
    THEN [error |-> thrown, user |-> NoAuthUser]
    ELSE [error |-> unauthorized("Erreur d'authentification"), user |-> NoAuthUser]

\* AuthMiddleware.requireAdmin
requireAdmin(lookup) ==
    LET authResult == authenticate(lookup) IN
    IF authResult.error # NoError THEN authResult
    ELSE IF authResult.user.role # "ADMIN"
    THEN [error |-> forbidden("Droits administrateur requis"), user |-> NoAuthUser]
    ELSE authResult

\* cookie, token and slot: the cookie the request carried, the token the jwt
\* callback returned and the create-checkout-session request it became
IdleApi ==
    [pc |-> "idle", wrapper |-> "", lookup |-> NoLookup, status |-> 0,
     error |-> NoError, invoked |-> FALSE, user |-> NoAuthUser,
     cookie |-> "", token |-> EmptyToken, slot |-> 0]

\* the wrapper around a handler: the handler runs with the IAuthResult, or
\* the error goes to ApiErrorHandler.handle
Wrapped(wrapper, lookup, authResult) ==
    IF authResult.error = NoError
    THEN [IdleApi EXCEPT !.pc = "done", !.wrapper = wrapper, !.lookup = lookup,
                         !.invoked = TRUE, !.user = authResult.user, !.status = 200]
    ELSE [IdleApi EXCEPT !.pc = "done", !.wrapper = wrapper, !.lookup = lookup,
                         !.error = authResult.error,
                         !.status = handle(authResult.error)]

\* a request to a route exported as withAuth(handler); the handler answers 200
withAuth(i, lookup) ==
    /\ api[i].pc = "idle"
    /\ \A x \in Apis : x < i => api[x].pc # "idle"
    /\ api' = [api EXCEPT ![i] = Wrapped("withAuth", lookup, authenticate(lookup))]
    /\ UNCHANGED <<courses, users, bookings, nextId, env, hook, co, sessions, svc,
                   accounts, jwt, clock, login, mw, rng>>

\* a request to a route exported as withAdminAuth(handler)
withAdminAuth(i, lookup) ==
    /\ api[i].pc = "idle"
    /\ \A x \in Apis : x < i => api[x].pc # "idle"
    /\ api' = [api EXCEPT ![i] = Wrapped("withAdminAuth", lookup, requireAdmin(lookup))]
    /\ UNCHANGED <<courses, users, bookings, nextId, env, hook, co, sessions, svc,
                   accounts, jwt, clock, login, mw, rng>>

\* ------------------------------------------------------------ UsersService
\* UsersService.update with { isActive }: one prisma.user.update; on an id
\* that names no user it fails (NotFoundException) and changes nothing
UsersService_update(id, isActive) ==
    /\ accounts' = IF id \in users
                   THEN [accounts EXCEPT ![id].isActive = isActive]
                   ELSE accounts
    /\ UNCHANGED <<courses, users, bookings, nextId, env, hook, co, sessions, svc,
                   api, jwt, clock, login, mw, rng>>

\* UsersService.remove: one prisma.user.delete, which fails and changes
\* nothing on an id that names no user or a user whose bookings hold it
UsersService_remove(id) ==
    /\ users' = IF id \in users /\ \A b \in bookings : b.userId # id
                THEN users \ {id}
                ELSE users
    /\ UNCHANGED <<courses, bookings, nextId, env, hook, co, sessions, svc,
                   api, accounts, jwt, clock, login, mw, rng>>

\* an hour passes
Tick ==
    /\ clock < MaxClock
    /\ clock' = clock + 1
    /\ UNCHANGED <<courses, users, bookings, nextId, env, hook, co, sessions, svc,
                   api, accounts, jwt, login, mw, rng>>

\* --------------------------------------------- getServerSession and withAuth
\* the body a browser sends to POST /api/create-checkout-session: a booking
\* for the user it signed in as
OwnBody == [t \in Cookies |-> Body("c2", "T1Z", Owner[t], NoAmount)]

\* the account the back office deactivates, reactivates and removes
ManagedUsers == {"u1"}

\* a request with cookie t reaches a route wrapped in withAuth:
\* getServerSession decodes the token and runs callbacks.jwt; the token it
\* returns goes back into the cookie when the response can set cookies
getServerSession(i, t) ==
    /\ api[i].pc = "idle"
    /\ \A x \in Apis : x < i => api[x].pc # "idle"
    /\ api' = [api EXCEPT ![i] =
         [IdleApi EXCEPT !.pc = "session", !.wrapper = "withAuth", !.cookie = t,
                         !.token = jwtCallback(jwt[t])]]
    /\ jwt' \in {jwt, [jwt EXCEPT ![t] = jwtCallback(jwt[t])]}
    /\ UNCHANGED <<courses, users, bookings, nextId, env, hook, co, sessions, svc,
                   accounts, clock, login, mw, rng>>

\* callbacks.session, the rest of AuthMiddleware.authenticate, and, when it
\* returns, handleCreateCheckoutSession up to its first database call
withAuth_handleCreateCheckoutSession(i, k) ==
    /\ api[i].pc = "session"
    /\ LET lookup == Returned(sessionCallback(api[i].token))
           authResult == authenticate(lookup) IN
       /\ api' = [api EXCEPT ![i] =
            [Wrapped("withAuth", lookup, authResult) EXCEPT
                !.cookie = api[i].cookie, !.token = api[i].token, !.slot = k]]
       /\ handleCreateCheckoutSession(k, [auth |-> authResult.user.id,
                                          body |-> OwnBody[api[i].cookie]])
    /\ UNCHANGED <<accounts, jwt, clock, login, mw, rng>>

\* -------------------------------------------------------------- AuthService
Logins == 1..MaxLogins

\* what arrives at authorize: the email and password fields of the form
Credentials(email, password) == [email |-> email, password |-> password]
LongPassword == "p101"

CredentialsSent ==
    { Credentials("u1@x", "pw1"), Credentials("U1@X", "pw1"),
      Credentials("u1@x", "pw2"), Credentials("u2@x", "pw2"),
      Credentials("u0@x", "pw1"), Credentials("u1", "pw1"),
      Credentials("", "pw1"), Credentials("u1@x", ""),
      Credentials("u1@x", LongPassword) }

\* z.string().email(): the strings of CredentialsSent that are addresses
IsEmail(email) == email \in {"u1@x", "U1@X", "u2@x", "u0@x"}

\* password.length
PasswordLength(password) ==
    CASE password = "" -> 0
      [] password = LongPassword -> 101
      [] OTHER -> 3

\* loginSchema.parse does not throw
loginSchemaAccepts(credentials) ==
    /\ IsEmail(credentials.email)
    /\ PasswordLength(credentials.password) >= 1
    /\ PasswordLength(credentials.password) <= 100

\* email.toLowerCase().trim()
Normalized(email) == IF email = "U1@X" THEN "u1@x" ELSE email

\* prisma.user.findUnique({ where: { email } }): the ids of the rows found
findByEmail(email) == {u \in users : accounts[u].email = email}

\* the value authenticateUser returns: null, or the user without password
NullUser == [null |-> TRUE]

\* an object that carries every selected column
UserObject_WholeRow(id, row) ==
    [id |-> id, email |-> row.email, role |-> row.role, image |-> "null",
     password |-> row.password]

UserObject(id, row) ==
    [id |-> id, email |-> row.email, role |-> row.role, image |-> "null"]

NoRow == [email |-> "", password |-> Hash(""), role |-> "", isActive |-> FALSE,
          lastLoginAt |-> 0]

IdleLogin ==
    [pc |-> "idle", credentials |-> Credentials("", ""), id |-> "", row |-> NoRow,
     result |-> NullUser, error |-> NoError, wrote |-> FALSE]

\* authenticateUser up to prisma.user.update: loginSchema.parse, the lookup
\* by email, the isActive check and bcrypt.compare
authenticateUser(j, credentials) ==
    /\ login[j].pc = "idle"
    /\ \A x \in Logins : x < j => login[x].pc # "idle"
    /\ LET s == [IdleLogin EXCEPT !.credentials = credentials]
           found == findByEmail(Normalized(credentials.email))
           id == CHOOSE u \in found : TRUE
           t == [s EXCEPT !.id = id, !.row = accounts[id]] IN
       login' = [login EXCEPT ![j] =
         IF ~loginSchemaAccepts(credentials)
         THEN [s EXCEPT !.pc = "done", !.error = ZodError]
         ELSE IF found = {} THEN [s EXCEPT !.pc = "done"]
         ELSE IF ~t.row.isActive THEN [t EXCEPT !.pc = "done"]
         ELSE IF ~compare(credentials.password, t.row.password)
              THEN [t EXCEPT !.pc = "done"]
         ELSE [t EXCEPT !.pc = "update"]]
    /\ UNCHANGED <<courses, users, bookings, nextId, env, hook, co, sessions, svc,
                   api, accounts, jwt, clock, mw, rng>>

\* prisma.user.update({ data: { lastLoginAt: new Date() } }) and the return;
\* the update of a row that is gone throws (P2025) and the catch returns null
updateLastLogin(j) ==
    /\ login[j].pc = "update"
    /\ IF login[j].id \in users
       THEN /\ accounts' = [accounts EXCEPT ![login[j].id].lastLoginAt = clock]
            /\ login' = [login EXCEPT ![j] =
                 [@ EXCEPT !.pc = "done", !.wrote = TRUE,
                           !.result = UserObject(login[j].id, login[j].row)]]
       ELSE /\ login' = [login EXCEPT ![j] =
                 [@ EXCEPT !.pc = "done", !.error = PrismaError("P2025")]]
            /\ UNCHANGED accounts
    /\ UNCHANGED <<courses, users, bookings, nextId, env, hook, co, sessions, svc,
                   api, jwt, clock, mw, rng>>

\* --------------------------------------------------------------- middleware
Requests == 1..MaxRequests

\* A pathname is the sequence of its pieces, cut so that one pathname starts
\* with another exactly when its sequence starts with the other's:
\* '/administrator' is << "/", "admin", "istrator" >>.
Pathnames ==
    { << "/" >>,
      << "/", "login" >>,
      << "/", "login", "/", "help" >>,
      << "/", "admin" >>,
      << "/", "admin", "istrator" >>,
      << "/", "admin", "/", "users" >>,
      << "/", "admin", "/", "report", ".", "pdf" >>,
      << "/", "dashboard" >>,
      << "/", "profile" >>,
      << "/", "bookings", "/", "1" >>,
      << "/", "api", "/", "auth", "/", "session" >>,
      << "/", "api", "/", "webhook" >>,
      << "/", "api", "/", "bookings" >> }

\* String.prototype.startsWith
startsWith(pathname, route) ==
    /\ Len(route) <= Len(pathname)
    /\ SubSeq(pathname, 1, Len(route)) = route

\* ROUTE_CONFIG.protected with only '/admin' in it
isProtectedRoute_AdminOnly(pathname) == startsWith(pathname, << "/", "admin" >>)

\* AuthenticationService.isProtectedRoute, over ROUTE_CONFIG.protected
isProtectedRoute(pathname) ==
    \E route \in { << "/", "admin" >>, << "/", "dashboard" >>,
                   << "/", "profile" >>, << "/", "bookings" >> } :
        startsWith(pathname, route)

\* AuthenticationService.isApiExclusion, over ROUTE_CONFIG.apiExclusions
isApiExclusion(pathname) ==
    \E route \in { << "/", "api", "/", "auth" >>, << "/", "api", "/", "webhook" >> } :
        startsWith(pathname, route)

\* config.matcher: Next.js runs the middleware on every pathname but those
\* starting with /api/auth, /_next/static, /_next/image and those with a dot
Matches(pathname) ==
    /\ \A route \in { << "/", "api", "/", "auth" >>, << "/", "_next", "/", "static" >>,
                      << "/", "_next", "/", "image" >> } : ~startsWith(pathname, route)
    /\ \A x \in 1..Len(pathname) : pathname[x] # "."

\* what await getToken(...) gives: null, the decoded token, or a throw
GetTokenOutcomes == {"null", "token", "throws"}

\* a NextResponse: NextResponse.next(), NextResponse.redirect(url), or
\* new NextResponse(body, { status }); "none" when there is no response
Response(kind, status, location, callbackUrl) ==
    [kind |-> kind, status |-> status, location |-> location,
     callbackUrl |-> callbackUrl, headers |-> [h \in {} |-> ""]]

IdleRequest ==
    [pc |-> "idle", pathname |-> << >>, token |-> "null", ran |-> FALSE,
     response |-> Response("none", 0, << >>, << >>)]

\* AuthenticationService.handleAuthRedirection: the redirect, or "none" (null)
handleAuthRedirection(pathname, token) ==
    IF startsWith(pathname, << "/", "api" >>) /\ isApiExclusion(pathname)
    THEN Response("none", 0, << >>, << >>)
    ELSE IF isProtectedRoute(pathname) /\ token = "null"
    THEN Response("redirect", 307, << "/", "login" >>, pathname)
    ELSE IF pathname = << "/", "login" >> /\ token # "null"
    THEN Response("redirect", 307, << "/", "dashboard" >>, << >>)
    ELSE Response("none", 0, << >>, << >>)

\* generateNonce: the value of the n-th call of randomBytes(16); two calls
\* of the generator do not return the same bytes
generateNonce(n) == << "nonce", n >>

\* SecurityHeadersService.generateCSP: where the nonce goes, and the rest
generateCSP(nonce) ==
    [scriptSrcNonce |-> nonce, styleSrcNonce |-> nonce,
     rest |-> "default-src 'self'; object-src 'none'; base-uri 'self'"]

\* SecurityHeadersService.applySecurityHeaders
applySecurityHeaders(response, nonce) ==
    LET names == { "Content-Security-Policy", "X-Frame-Options",
                   "X-Content-Type-Options", "X-XSS-Protection", "Referrer-Policy",
                   "Permissions-Policy", "Server", "Cross-Origin-Embedder-Policy",
                   "Cross-Origin-Opener-Policy", "Cross-Origin-Resource-Policy",
                   "X-Nonce" }
                 \cup (IF env.NODE_ENV = "production"
                       THEN {"Strict-Transport-Security"} ELSE {})
                 \cup DOMAIN response.headers IN
    [response EXCEPT !.headers =
       [h \in names |->
          CASE h = "Content-Security-Policy" -> generateCSP(nonce)
            [] h = "X-Frame-Options" -> "DENY"
            [] h = "X-Content-Type-Options" -> "nosniff"
            [] h = "X-XSS-Protection" -> "1; mode=block"
            [] h = "Referrer-Policy" -> "strict-origin-when-cross-origin"
            [] h = "Permissions-Policy" -> "camera=(), microphone=(), geolocation=(), payment=(self)"
            [] h = "Strict-Transport-Security" -> "max-age=31536000; includeSubDomains; preload"
            [] h = "Server" -> ""
            [] h = "Cross-Origin-Embedder-Policy" -> "require-corp"
            [] h = "Cross-Origin-Opener-Policy" -> "same-origin"
            [] h = "Cross-Origin-Resource-Policy" -> "same-origin"
            [] h = "X-Nonce" -> nonce
            [] OTHER -> response.headers[h]]]

\* a request for pathname arrives; when config.matcher hands it to the
\* middleware: the nonce, getToken, the redirect or NextResponse.next() with
\* the security headers, or the catch block's bare 500
middleware(n, pathname, token) ==
    /\ mw[n].pc = "idle"
    /\ \A x \in Requests : x < n => mw[x].pc # "idle"
    /\ LET q == [IdleRequest EXCEPT !.pc = "done", !.pathname = pathname,
                                    !.token = token]
           nonce == generateNonce(rng + 1)
           authRedirect == handleAuthRedirection(pathname, token)
           next == applySecurityHeaders(Response("next", 200, << >>, << >>), nonce) IN
       IF ~Matches(pathname)
       THEN /\ mw' = [mw EXCEPT ![n] = q]
            /\ rng' = rng
       ELSE /\ rng' = rng + 1
            /\ mw' = [mw EXCEPT ![n] = [q EXCEPT !.ran = TRUE, !.response =
                 IF token = "throws"
                 THEN [Response("error", 500, << >>, << >>) EXCEPT
                         !.headers = [h \in {"content-type"} |-> "text/plain;charset=UTF-8"]]
                 ELSE IF authRedirect.kind = "redirect"
                 THEN applySecurityHeaders(authRedirect, nonce)
                 ELSE IF env.NODE_ENV = "development"
                 THEN [next EXCEPT !.headers =
                         [h \in DOMAIN next.headers
                                \cup {"X-Debug-Route", "X-Debug-Authenticated"} |->
                            CASE h = "X-Debug-Route" -> pathname
                              [] h = "X-Debug-Authenticated" ->
                                   IF token = "null" THEN "false" ELSE "true"
                              [] OTHER -> next.headers[h]]]
                 ELSE next]]
    /\ UNCHANGED <<courses, users, bookings, nextId, env, hook, co, sessions, svc,
                   api, accounts, jwt, clock, login>>

\* ------------------------------------------------------------------ specs
Capacity == [c \in CourseIds |-> IF c = "c1" THEN 1 ELSE 2]
Price == [c \in CourseIds |-> IF c = "c1" THEN [euros |-> 25, cents |-> 0]
                                           ELSE [euros |-> 19, cents |-> 99]]

InitStore ==
    /\ courses = [c \in CourseIds |-> [capacity |-> Capacity[c], price |-> Price[c]]]
    /\ users = UserIds
    /\ bookings = {}
    /\ nextId = 1
    /\ hook = [r \in Hooks |-> IdleHook]
    /\ co = [k \in Checkouts |-> IdleCheckout]
    /\ sessions = {}
    /\ svc = [i \in Calls |-> IdleCall]
    /\ api = [i \in Apis |-> IdleApi]
    /\ accounts = InitAccounts
    /\ jwt = [t \in Cookies |-> IssuedToken(Owner[t])]
    /\ clock = StartClock
    /\ login = [j \in Logins |-> IdleLogin]
    /\ mw = [n \in Requests |-> IdleRequest]
    /\ rng = 0

\* ---- the reconciler alone: any signed or unsigned event may arrive
Init ==
    /\ InitStore
    /\ env \in [webhookSecret : BOOLEAN, baseUrl : {TRUE}]

Reconcile ==
    \/ \E r \in Hooks : FindCourse(r)
    \/ \E r \in Hooks : FindUser(r)
    \/ \E r \in Hooks : FindExisting(r)
    \/ \E r \in Hooks : TxCount(r)
    \/ \E r \in Hooks : TxCreate(r)

Next ==
    \/ \E r \in Hooks, req \in HookRequests : POST(r, req)
    \/ Reconcile

Spec == Init /\ [][Next]_vars

\* ---- the whole flow: checkout requests, and the events of paid sessions
InitCheckout ==
    /\ InitStore
    /\ env \in [webhookSecret : {TRUE}, baseUrl : BOOLEAN]

NextCheckout ==
    \/ \E k \in Checkouts, req \in CheckoutRequests : CreateCheckoutSession(k, req)
    \/ \E k \in Checkouts : GetCourseData(k)
    \/ \E k \in Checkouts : AvailCount(k)
    \/ \E k \in Checkouts : AvailCourse(k)
    \/ \E k \in Checkouts : StripeCreate(k)
    \/ \E k \in Checkouts : StripeFail(k)
    \/ \E r \in Hooks \cap (1..MaxPaid), s \in sessions : POST(r, PaidEvent(s))
    \/ Reconcile

SpecCheckout == InitCheckout /\ [][NextCheckout]_vars

\* ---- the back office alone: any interleaving of BookingsService calls
InitBookings ==
    /\ InitStore
    /\ env = [webhookSecret |-> TRUE, baseUrl |-> TRUE]

NextBookings ==
    \/ \E i \in Calls, dto \in CreateDtos : BookingsService_create(i, dto)
    \/ \E i \in Calls : BookingsService_insert(i)
    \/ \E i \in Calls, id \in 1..nextId, dto \in UpdateDtos : BookingsService_update(i, id, dto)
    \/ \E i \in Calls, id \in 1..nextId : BookingsService_remove(i, id)

SpecBookings == InitBookings /\ [][NextBookings]_vars

\* ---- bookings entered through BookingsService.create while customers
\* ---- check out and pay online
\* the holds entered at the desk
DeskDtos == {dto \in CreateDtos : dto.status = "PENDING" /\ dto.courseId \in CourseIds}

\* the customers' requests: their own, well formed, for an existing course
DeskRequests ==
    {req \in CheckoutRequests : /\ req.auth # ""
                                /\ req.body.userId = req.auth
                                /\ SchemaAccepts(req.body)
                                /\ req.body.courseId \in CourseIds
                                /\ req.body.amount = NoAmount \/ req.body.courseId # "c1"}

NextDesk ==
    \/ \E i \in Calls \cap (1..MaxDesk), dto \in DeskDtos : BookingsService_create(i, dto)
    \/ \E i \in Calls : BookingsService_insert(i)
    \/ \E k \in Checkouts \cap (1..MaxPaid), req \in DeskRequests : CreateCheckoutSession(k, req)
    \/ \E k \in Checkouts : GetCourseData(k)
    \/ \E k \in Checkouts : AvailCount(k)
    \/ \E k \in Checkouts : AvailCourse(k)
    \/ \E k \in Checkouts : StripeCreate(k)
    \/ \E k \in Checkouts : StripeFail(k)
    \/ \E r \in Hooks \cap (1..MaxPaid), s \in sessions : POST(r, PaidEvent(s))
    \/ Reconcile

SpecDesk == InitBookings /\ [][NextDesk]_vars

\* ---- the reconciler while the back office edits and removes courses
InitCourses ==
    /\ InitStore
    /\ env \in [webhookSecret : {TRUE}, baseUrl : {TRUE}, onDeleteCascade : BOOLEAN]

NextCourses ==
    \/ \E r \in Hooks, req \in ValidCompleted : POST(r, req)
    \/ Reconcile
    \/ \E id \in CourseIds, capacity \in CourseCapacities : CoursesService_update(id, capacity)
    \/ \E id \in CourseIds : CoursesService_remove(id)

SpecCourses == InitCourses /\ [][NextCourses]_vars

\* ---- the wrappers alone, over the outcomes of the session lookup
NextAuth ==
    \/ \E i \in Apis, lookup \in ServerSessions : withAuth(i, lookup)
    \/ \E i \in Apis, lookup \in ServerSessions : withAdminAuth(i, lookup)

SpecAuth == InitBookings /\ [][NextAuth]_vars

\* ---- signed-in browsers calling create-checkout-session while accounts are
\* deactivated, reactivated and removed and time passes
NextSession ==
    \/ \E i \in Apis, t \in Cookies : getServerSession(i, t)
    \/ \E i \in Apis, k \in Checkouts : withAuth_handleCreateCheckoutSession(i, k)
    \/ \E k \in Checkouts : GetCourseData(k)
    \/ \E k \in Checkouts : AvailCount(k)
    \/ \E k \in Checkouts : AvailCourse(k)
    \/ \E k \in Checkouts : StripeCreate(k)
    \/ \E k \in Checkouts : StripeFail(k)
    \/ \E id \in ManagedUsers, isActive \in BOOLEAN : UsersService_update(id, isActive)
    \/ \E id \in ManagedUsers : UsersService_remove(id)
    \/ Tick

SpecSession == InitBookings /\ [][NextSession]_vars

\* ---- sign-in attempts while the account is deactivated, reactivated, removed
NextLogin ==
    \/ \E j \in Logins, credentials \in CredentialsSent : authenticateUser(j, credentials)
    \/ \E j \in Logins : updateLastLogin(j)
    \/ \E id \in ManagedUsers, isActive \in BOOLEAN : UsersService_update(id, isActive)
    \/ \E id \in ManagedUsers : UsersService_remove(id)
    \/ Tick

SpecLogin == InitBookings /\ [][NextLogin]_vars

\* ---- the middleware alone, in production and in development
InitMiddleware ==
    /\ InitStore
    /\ env \in [webhookSecret : {TRUE}, baseUrl : {TRUE},
                NODE_ENV : {"production", "development"}]

NextMiddleware ==
    \E n \in Requests, pathname \in Pathnames, token \in GetTokenOutcomes :
        middleware(n, pathname, token)

SpecMiddleware == InitMiddleware /\ [][NextMiddleware]_vars

\* ================================================================ claims
\* the delivery in slot r is a signed payment-completed event whose
\* metadata passes validateSessionMetadata
IsPaidDelivery(r) ==
    /\ hook[r].pc # "idle"
    /\ hook[r].req.sig = "good"
    /\ env.webhookSecret
    /\ hook[r].req.type = "checkout.session.completed"
    /\ validateSessionMetadata(hook[r].req.metadata) = NoError

\* the rows of one (course, date) slot
SlotRows(c, d) == {b \in bookings : b.courseId = c /\ b.date = d}

\* the rows of the (user, course, date) triple named by delivery r
TripleRows(r) ==
    {b \in bookings : /\ b.courseId = hook[r].req.metadata.courseId
                      /\ b.userId = hook[r].req.metadata.userId
                      /\ b.date = ParseDate(hook[r].req.metadata.date)}

CourseFull(r) == hook[r].pc = "done" /\ hook[r].error.message = "course full"

\* C1: for every (course, date) pair the number of CONFIRMED bookings is
\* never greater than the capacity of the course.
C1_ConfirmedWithinCapacity ==
    \A c \in DOMAIN courses : \A b \in bookings :
        Cardinality({x \in SlotRows(c, b.date) : x.status = "CONFIRMED"}) <= courses[c].capacity

\* C2: when two or more deliveries from distinct users for one slot of a
\* capacity-1 course, all received while the slot had no booking, have all
\* finished, the slot holds exactly one CONFIRMED booking and every other
\* delivery ended in the 'course full' error without creating a row.
C2_LastSlotGoesToExactlyOne ==
    \A c \in DOMAIN courses : \A d \in {ParseDate(x) : x \in {"T1Z", "T2Z"}} :
        LET R == {r \in Hooks : /\ IsPaidDelivery(r)
                                /\ hook[r].req.metadata.courseId = c
                                /\ ParseDate(hook[r].req.metadata.date) = d} IN
        ( /\ courses[c].capacity = 1
          /\ Cardinality(R) >= 2
          /\ \A r \in R : /\ hook[r].pc = "done"
                          /\ hook[r].req.metadata.userId \in users
                          /\ \A b \in SlotRows(c, d) : b.id >= hook[r].startId
          /\ \A r1, r2 \in R :
                r1 # r2 => hook[r1].req.metadata.userId # hook[r2].req.metadata.userId )
        => /\ Cardinality({b \in SlotRows(c, d) : b.status = "CONFIRMED"}) = 1
           /\ Cardinality({r \in R : CourseFull(r) /\ hook[r].created = 0})
                 = Cardinality(R) - 1

\* C3: at most one CONFIRMED booking exists for any (user, course, date).
C3_OneConfirmedPerTriple ==
    \A b1, b2 \in bookings :
        ( /\ b1.status = "CONFIRMED" /\ b2.status = "CONFIRMED"
          /\ b1.userId = b2.userId /\ b1.courseId = b2.courseId /\ b1.date = b2.date )
        => b1.id = b2.id

\* delivery r repeats an event that another delivery had fully processed,
\* creating a CONFIRMED booking, before r was received
IsRedelivery(r) ==
    /\ IsPaidDelivery(r)
    /\ \E r0 \in Hooks \ {r} :
         /\ hook[r0].req = hook[r].req
         /\ hook[r0].pc = "done"
         /\ hook[r0].created # 0
         /\ hook[r0].created < hook[r].startId
         /\ \E b \in TripleRows(r) : b.id = hook[r0].created /\ b.status = "CONFIRMED"

\* C4: the redelivery of an event that was fully processed and created a
\* CONFIRMED booking is a no-op: none of its steps inserts or changes a row,
\* and it is answered 200 whether or not the slot is full.
C4_RedeliveryIsNoOp ==
    /\ [](\A r \in Hooks : IsRedelivery(r) /\ hook[r].pc = "done"
                               => hook[r].status = 200 /\ hook[r].created = 0)
    /\ [][\A r \in Hooks : IsRedelivery(r)' /\ hook'[r] # hook[r]
                               => bookings' = bookings /\ nextId' = nextId]_vars

\* a redelivery answered 200 while its slot is at capacity
C4_Witness ==
    \E r \in Hooks :
        /\ IsRedelivery(r) /\ hook[r].pc = "done" /\ hook[r].status = 200
        /\ ConfirmedCount(hook[r].req.metadata.courseId, ParseDate(hook[r].req.metadata.date))
             >= courses[hook[r].req.metadata.courseId].capacity

\* the caller of request k is authenticated and names another user in the body
IsForeignRequest(k) ==
    co[k].pc # "idle" /\ co[k].auth # "" /\ co[k].body.userId # co[k].auth

SessionOpenedBy(k) == \E s \in sessions : s.id = k

\* C5 as stated: every request whose body userId differs from the caller's
\* id ends with 403, whatever the other fields, and opens no session.
C5_ForeignUserAlwaysForbidden ==
    \A k \in Checkouts : IsForeignRequest(k)
        => co[k].pc = "done" /\ co[k].status = 403 /\ ~SessionOpenedBy(k)

\* C5 amended: such a request is refused before any database or gateway
\* call and opens no session; the answer is 403 when the body passes the
\* schema (missing or existing course, full or free slot) and 400 when it
\* does not.
C5_ForeignUserRefused ==
    \A k \in Checkouts : IsForeignRequest(k)
        => /\ co[k].pc = "done"
           /\ co[k].db = 0
           /\ ~SessionOpenedBy(k)
           /\ co[k].status = IF SchemaAccepts(co[k].body) THEN 403 ELSE 400

\* a foreign request refused with 403 for a slot that is full
C5_Witness ==
    \E k \in Checkouts :
        /\ IsForeignRequest(k) /\ co[k].status = 403
        /\ co[k].body.courseId \in DOMAIN courses
        /\ ActiveCount(co[k].body.courseId, ParseDate(co[k].body.date))
             >= courses[co[k].body.courseId].capacity

\* C6: the unit amount of every opened session is the stored price, in
\* cents, of the course read by the request that opened it, and two
\* sessions for one course carry the same amount whatever else the bodies
\* of their requests held.
C6_AmountIsCoursePrice ==
    \A s \in sessions :
        /\ co[s.id].course.id = co[s.id].body.courseId
        /\ co[s.id].course.price = courses[co[s.id].body.courseId].price
        /\ s.unit_amount = 100 * co[s.id].course.price.euros + co[s.id].course.price.cents
        /\ \A t \in sessions :
             co[t.id].body.courseId = co[s.id].body.courseId => t.unit_amount = s.unit_amount

\* two sessions for one course, opened by requests with different bodies,
\* one of which carried an amount of its own
C6_Witness ==
    \E s, t \in sessions :
        /\ s.id # t.id
        /\ co[s.id].body.courseId = co[t.id].body.courseId
        /\ co[s.id].body # co[t.id].body
        /\ co[t.id].body.amount # NoAmount

\* the signature of delivery r is absent, or fails verification against
\* the configured secret
IsBadSignature(r) ==
    /\ hook[r].pc # "idle"
    /\ \/ hook[r].req.sig = "none"
       \/ hook[r].req.sig = "bad" /\ env.webhookSecret

\* C7: a delivery whose signature is absent or does not verify is answered
\* 401 without any database call, and its request inserts or changes no row.
C7_BadSignatureUnauthorized ==
    /\ [](\A r \in Hooks : IsBadSignature(r)
             => /\ hook[r].pc = "done" /\ hook[r].status = 401
                /\ hook[r].db = 0 /\ hook[r].created = 0)
    /\ [][\A r \in Hooks : IsBadSignature(r)' /\ hook'[r] # hook[r]
             => bookings' = bookings /\ nextId' = nextId]_vars

\* a forged payment-completed event with well-formed metadata, refused
C7_Witness ==
    \E r \in Hooks :
        /\ IsBadSignature(r) /\ hook[r].req.sig = "bad" /\ hook[r].status = 401
        /\ hook[r].req.type = "checkout.session.completed"
        /\ validateSessionMetadata(hook[r].req.metadata) = NoError

\* C8 as stated: a delivery rejected by the capacity re-check is answered
\* with a 2xx status and logged at error severity.
C8_CourseFullAccepted ==
    \A r \in Hooks : CourseFull(r)
        => hook[r].status \in 200..299 /\ "error" \in hook[r].logs

\* C8 amended: such a delivery is answered 500 and logged at error severity.
C8_CourseFullAnswered500 ==
    \A r \in Hooks : CourseFull(r)
        => IsPaidDelivery(r) /\ hook[r].status = 500 /\ "error" \in hook[r].logs

\* a paid delivery refused as full and answered 500
C8_Witness ==
    \E r \in Hooks : CourseFull(r) /\ IsPaidDelivery(r) /\ hook[r].status = 500

\* C9: when the re-check inside the transaction counts at least as many
\* CONFIRMED bookings as the capacity, the delivery ends in the 'course
\* full' error; that step, like every step of a delivery but the insert,
\* leaves the Booking table as it was, and the delivery has created no row.
C9_FullRecheckAborts ==
    /\ [][\A r \in Hooks : hook'[r] # hook[r] /\ hook[r].pc # "txCreate"
            => bookings' = bookings /\ nextId' = nextId]_vars
    /\ [][\A r \in Hooks :
            ( /\ hook[r].pc = "txCount" /\ hook'[r] # hook[r]
              /\ ConfirmedCount(hook[r].req.metadata.courseId,
                                ParseDate(hook[r].req.metadata.date))
                   >= courses[hook[r].req.metadata.courseId].capacity )
            => /\ bookings' = bookings /\ nextId' = nextId
               /\ CourseFull(r)'
               /\ hook'[r].created = 0]_vars
    /\ [](\A r \in Hooks : CourseFull(r) => hook[r].created = 0)

\* a delivery refused as full that left no row for its paying user
C9_Witness ==
    \E r \in Hooks : CourseFull(r) /\ hook[r].created = 0 /\ TripleRows(r) = {}

\* the row carries what the session of delivery r says
RowMatchesSession(b, r) ==
    LET m == hook[r].req.metadata
        p == hook[r].req.pay IN
    /\ b.status = "CONFIRMED" /\ b.paymentStatus = "PAID"
    /\ b.paymentId = p.payment_intent
    /\ IF p.amount_total \in {NullAmount, 0}
       THEN b.amount.euros = 0 /\ b.amount.cents = 0
       ELSE 100 * b.amount.euros + b.amount.cents = p.amount_total /\ b.amount.cents < 100
    /\ b.currency = (IF p.currency = "" THEN "eur" ELSE p.currency)
    /\ b.courseId = m.courseId /\ b.userId = m.userId /\ b.date = ParseDate(m.date)

\* C10: every row of the Booking table was created by one delivery and
\* carries CONFIRMED, PAID, the payment reference, the amount and currency
\* of the session and the course, user and date of its metadata; a paid
\* delivery that finds no booking for its triple and a free place goes on
\* to insert exactly one row and is answered 200.
C10_CreatedRowFromSession ==
    /\ [](\A b \in bookings : \E r \in Hooks : hook[r].created = b.id)
    /\ [](\A r \in Hooks : hook[r].created # 0
             => \E b \in bookings : b.id = hook[r].created /\ RowMatchesSession(b, r))
    /\ [][\A r \in Hooks : hook'[r] # hook[r] =>
            /\ (hook[r].pc = "findExisting" /\ ExistingBookings(
                     hook[r].req.metadata.courseId, hook[r].req.metadata.userId,
                     ParseDate(hook[r].req.metadata.date)) = {})
                  => hook'[r].pc = "txCount"
            /\ (hook[r].pc = "txCount"
                  /\ ConfirmedCount(hook[r].req.metadata.courseId,
                                    ParseDate(hook[r].req.metadata.date))
                       < courses[hook[r].req.metadata.courseId].capacity)
                  => hook'[r].pc = "txCreate"
            /\ hook[r].pc = "txCreate"
                  => /\ bookings \subseteq bookings'
                     /\ Cardinality(bookings' \ bookings) = 1
                     /\ hook'[r].pc = "done" /\ hook'[r].status = 200
                     /\ \A b \in bookings' \ bookings : hook'[r].created = b.id]_vars

\* a created row whose amount and currency are not those of the course
C10_Witness ==
    \E r \in Hooks : \E b \in bookings :
        /\ hook[r].created = b.id /\ hook[r].status = 200
        /\ b.currency = "usd"
        /\ b.amount # courses[b.courseId].price

\* C11: when a correctly signed payment-completed delivery with valid
\* metadata has been answered 200, a CONFIRMED booking exists for the
\* (user, course, date) it names.
C11_AnsweredMeansConfirmed ==
    \A r \in Hooks :
        (IsPaidDelivery(r) /\ hook[r].pc = "done" /\ hook[r].status = 200)
        => \E b \in TripleRows(r) : b.status = "CONFIRMED"

\* C12: no step of a create-checkout-session request inserts, changes or
\* deletes a Booking row, whatever its outcome; a request whose gateway
\* call fails is answered 502 (external service) and opens no session.
C12_InitiatorWritesNoBooking ==
    /\ [][\A k \in Checkouts : co'[k] # co[k]
            => bookings' = bookings /\ nextId' = nextId]_vars
    /\ [](\A k \in Checkouts : co[k].error = StripeError
            => co[k].pc = "done" /\ co[k].status = 502 /\ ~SessionOpenedBy(k))

\* a request ended by a gateway error, answered 502, while the table holds
\* a booking
C12_Witness ==
    /\ bookings # {}
    /\ \E k \in Checkouts : co[k].error = StripeError /\ co[k].status = 502

\* request k comes from an authenticated caller, names the caller as the
\* user and passes the schema
IsOwnRequest(k) ==
    /\ co[k].pc # "idle"
    /\ co[k].auth # ""
    /\ co[k].body.userId = co[k].auth
    /\ SchemaAccepts(co[k].body)

\* the CONFIRMED bookings of the slot request k names fill the course
SlotIsFull(k) ==
    /\ co[k].body.courseId \in DOMAIN courses
    /\ ConfirmedCount(co[k].body.courseId, ParseDate(co[k].body.date))
         >= courses[co[k].body.courseId].capacity

\* C13: the availability count of an own, well-formed request taken while
\* the slot is full is at least the capacity, and a request with such a
\* count for an existing course ends with 409 and opens no session.
C13_FullSlotConflict ==
    /\ [][\A k \in Checkouts :
            (IsOwnRequest(k) /\ co[k].pc = "availCount" /\ co'[k] # co[k] /\ SlotIsFull(k))
            => co'[k].bookingCount >= courses[co[k].body.courseId].capacity]_vars
    /\ [](\A k \in Checkouts :
            ( /\ IsOwnRequest(k)
              /\ co[k].body.courseId \in DOMAIN courses
              /\ co[k].pc \in {"stripe", "done"}
              /\ co[k].bookingCount >= courses[co[k].body.courseId].capacity )
            => co[k].pc = "done" /\ co[k].status = 409 /\ ~SessionOpenedBy(k))

\* an own request for a slot filled by a CONFIRMED booking, answered 409
C13_Witness ==
    \E k \in Checkouts :
        /\ IsOwnRequest(k) /\ SlotIsFull(k)
        /\ co[k].pc = "done" /\ co[k].status = 409 /\ ~SessionOpenedBy(k)

\* C14 as stated: a request is refused as full only when the CONFIRMED
\* bookings of its slot fill the course (rows are never removed here, so a
\* slot full at the time of the check is still full afterwards).
C14_RefusedOnlyWhenConfirmedFull ==
    \A k \in Checkouts : co[k].status = 409 => SlotIsFull(k)

\* C14 amended: the availability count is the number of CONFIRMED and
\* PENDING bookings of the slot, and an own, well-formed request for an
\* existing course is refused as full (409) exactly when that count is
\* greater than or equal to the capacity.
C14_CountsConfirmedAndPending ==
    /\ [][\A k \in Checkouts : (co[k].pc = "availCount" /\ co'[k] # co[k])
            => co'[k].bookingCount =
                 Cardinality({b \in SlotRows(co[k].data.courseId, ParseDate(co[k].data.date)) :
                                 b.status = "CONFIRMED" \/ b.status = "PENDING"})]_vars
    /\ [](\A k \in Checkouts :
            ( /\ IsOwnRequest(k)
              /\ co[k].body.courseId \in DOMAIN courses
              /\ co[k].pc \in {"stripe", "done"} )
            => ( (co[k].pc = "done" /\ co[k].status = 409)
                 <=> co[k].bookingCount >= courses[co[k].body.courseId].capacity ))

\* a request refused as full for a slot whose only booking is PENDING
C14_Witness ==
    \E k \in Checkouts :
        /\ IsOwnRequest(k) /\ co[k].status = 409 /\ ~SlotIsFull(k)
        /\ \E b \in SlotRows(co[k].body.courseId, ParseDate(co[k].body.date)) :
               b.status = "PENDING"

IsOtherEvent(r) ==
    /\ hook[r].pc # "idle"
    /\ hook[r].req.sig = "good"
    /\ env.webhookSecret
    /\ hook[r].req.type # "checkout.session.completed"

\* C16: a verified event of any other type (session expired, payment
\* failed, unknown) is answered 200 without any database call, and its
\* request leaves the Booking, Course and User tables as they were.
C16_OtherEventsChangeNothing ==
    /\ [](\A r \in Hooks : IsOtherEvent(r)
             => /\ hook[r].pc = "done" /\ hook[r].status = 200
                /\ hook[r].db = 0 /\ hook[r].created = 0)
    /\ [][\A r \in Hooks : IsOtherEvent(r)' /\ hook'[r] # hook[r]
             => /\ bookings' = bookings /\ nextId' = nextId
                /\ courses' = courses /\ users' = users]_vars

\* a failed payment and an event of an unknown type, both answered 200
C16_Witness ==
    /\ \E r \in Hooks : /\ IsOtherEvent(r) /\ hook[r].status = 200
                        /\ hook[r].req.type = "payment_intent.payment_failed"
    /\ \E r \in Hooks : /\ IsOtherEvent(r) /\ hook[r].status = 200
                        /\ hook[r].req.type = "customer.created"

\* delivery r carries a verified checkout.session.completed event whose
\* metadata is absent, lacks courseId, date or userId, has another
\* bookingType, or holds a date that does not parse
IsMalformedDelivery(r) ==
    /\ hook[r].pc # "idle"
    /\ hook[r].req.sig = "good"
    /\ env.webhookSecret
    /\ hook[r].req.type = "checkout.session.completed"
    /\ LET m == hook[r].req.metadata IN
       \/ ~m.present
       \/ m.courseId = "" \/ m.date = "" \/ m.userId = ""
       \/ m.bookingType # "course_booking"
       \/ ParseDate(m.date) = NaN

\* C17: such a delivery is answered with a status outside 200..299 (it is
\* 500) without any database call, and its request inserts or changes no
\* booking.
C17_MalformedMetadataRejected ==
    /\ [](\A r \in Hooks : IsMalformedDelivery(r)
             => /\ hook[r].pc = "done"
                /\ hook[r].status \notin 200..299 /\ hook[r].status = 500
                /\ hook[r].db = 0 /\ hook[r].created = 0)
    /\ [][\A r \in Hooks : IsMalformedDelivery(r)' /\ hook'[r] # hook[r]
             => bookings' = bookings /\ nextId' = nextId]_vars

\* a delivery rejected for its unparsable date, and one rejected for its
\* bookingType
C17_Witness ==
    /\ \E r \in Hooks : /\ IsMalformedDelivery(r) /\ hook[r].status = 500
                        /\ hook[r].req.metadata.date = "garbage"
    /\ \E r \in Hooks : /\ IsMalformedDelivery(r) /\ hook[r].status = 500
                        /\ hook[r].req.metadata.bookingType = "gift_card"

\* the date of request k is not a well-formed timestamp, or is not
\* strictly after the time of the request
HasBadDate(k) ==
    \/ ~IsIsoDatetime(co[k].body.date)
    \/ ParseDate(co[k].body.date) <= Now

\* C18 as stated: a finished request of an authenticated caller with a
\* bad date is answered 400, one with a good date, the caller's own id and
\* a courseId that names no course is answered 404, and neither opens a
\* session.
C18_MissingCourseAlwaysNotFound ==
    \A k \in Checkouts : (co[k].pc = "done" /\ co[k].auth # "") =>
        /\ HasBadDate(k) => co[k].status = 400 /\ ~SessionOpenedBy(k)
        /\ ( /\ ~HasBadDate(k)
             /\ co[k].body.userId = co[k].auth
             /\ co[k].body.courseId \notin DOMAIN courses )
           => co[k].status = 404 /\ ~SessionOpenedBy(k)

\* C18 amended: a request of an authenticated caller whose date is bad or
\* whose courseId is not a UUID is answered 400 before any database call;
\* an own request that passes the schema and names no existing course is
\* answered 404; none of them opens a session.
C18_ValidationThenNotFound ==
    \A k \in Checkouts : (co[k].pc # "idle" /\ co[k].auth # "") =>
        /\ (HasBadDate(k) \/ ~IsUuid(co[k].body.courseId))
             => /\ co[k].pc = "done" /\ co[k].status = 400
                /\ co[k].db = 0 /\ ~SessionOpenedBy(k)
        /\ (IsOwnRequest(k) /\ co[k].body.courseId \notin DOMAIN courses)
             => /\ co[k].pc = "done" => co[k].status = 404
                /\ co[k].pc \in {"getCourseData", "done"}
                /\ ~SessionOpenedBy(k)

\* a date equal to the time of the request answered 400, and a courseId
\* that is no UUID answered 400 rather than 404
C18_Witness ==
    /\ \E k \in Checkouts : /\ co[k].auth # "" /\ co[k].status = 400
                            /\ ParseDate(co[k].body.date) = Now
    /\ \E k \in Checkouts : /\ co[k].auth # "" /\ co[k].status = 400
                            /\ ~HasBadDate(k)
                            /\ ~IsUuid(co[k].body.courseId)

\* C19: a step of a checkout request or of a webhook delivery keeps every
\* row of the Booking table as it is; the only change it can make is the
\* insertion, by the last statement of the reconciler's transaction, of
\* one new row, which is CONFIRMED and has an id no row had.
C19_FlowOnlyInsertsConfirmed ==
    [][(hook' # hook \/ co' # co \/ sessions' # sessions) =>
         /\ bookings \subseteq bookings'
         /\ bookings' # bookings =>
              /\ \E r \in Hooks : hook[r].pc = "txCreate" /\ hook'[r].pc = "done"
              /\ Cardinality(bookings' \ bookings) = 1
              /\ \A b \in bookings' \ bookings :
                    /\ b.status = "CONFIRMED"
                    /\ \A x \in bookings : x.id # b.id]_vars

\* a delivery answered 200 on finding a PENDING booking of its triple,
\* which is still PENDING and unpaid
C19_Witness ==
    \E r \in Hooks :
        /\ IsPaidDelivery(r) /\ hook[r].pc = "done" /\ hook[r].status = 200
        /\ hook[r].created = 0
        /\ \E b \in TripleRows(r) : b.status = "PENDING" /\ b.paymentStatus = "PENDING"

\* C20: whatever BookingsService calls have run, and however they were
\* interleaved, no (course, date) slot holds more CONFIRMED bookings than
\* the capacity of the course.
C20_ServiceKeepsCapacity ==
    \A c \in DOMAIN courses : \A d \in {ParseDate(s) : s \in {"T1Z", "T2Z"}} :
        ConfirmedCount(c, d) <= courses[c].capacity

\* C21: a create call for a course that does not exist fails with
\* NotFoundException, and one for a slot whose CONFIRMED bookings reach the
\* capacity fails with BadRequestException 'Course is at full capacity';
\* an update or remove call whose id names no booking fails with
\* NotFoundException.  The step that fails leaves the Booking table as it
\* was, and a failed call has created no row.
C21_ServiceErrors ==
    /\ [][\A i \in Calls : (svc[i].pc = "idle" /\ svc'[i].pc # "idle") =>
            LET s == svc'[i] IN
            /\ (s.op = "create" /\ s.dto.courseId \notin DOMAIN courses)
                 => /\ s.pc = "done" /\ s.error.class = "NotFoundException"
                    /\ s.error.statusCode = 404
                    /\ bookings' = bookings /\ nextId' = nextId
            /\ ( /\ s.op = "create" /\ s.dto.courseId \in DOMAIN courses
                 /\ Cardinality({b \in SlotRows(s.dto.courseId, ParseDate(s.dto.date)) :
                                    b.status = "CONFIRMED"})
                      >= courses[s.dto.courseId].capacity )
                 => /\ s.pc = "done" /\ s.error.class = "BadRequestException"
                    /\ s.error.message = "Course is at full capacity"
                    /\ bookings' = bookings /\ nextId' = nextId
            /\ (s.op \in {"update", "remove"} /\ \A b \in bookings : b.id # s.id)
                 => /\ s.pc = "done" /\ s.error.class = "NotFoundException"
                    /\ s.error.statusCode = 404
                    /\ bookings' = bookings /\ nextId' = nextId]_vars
    /\ [](\A i \in Calls : svc[i].error # NoError
             => svc[i].pc = "done" /\ svc[i].created = 0)

\* a create refused on a full slot, and an update or remove of an id that
\* names no booking, while the table holds a row
C21_Witness ==
    /\ bookings # {}
    /\ \E i \in Calls : /\ svc[i].op = "create"
                        /\ svc[i].error.class = "BadRequestException"
    /\ \E i \in Calls : /\ svc[i].op \in {"update", "remove"}
                        /\ svc[i].error.class = "NotFoundException"

\* delivery r ran with no other delivery writing beside it: every other
\* delivery has not arrived, or had finished before r arrived
RanAlone(r) ==
    \A r0 \in Hooks \ {r} :
        \/ hook[r0].pc = "idle"
        \/ hook[r0].pc = "done" /\ hook[r0].created < hook[r].startId

\* C22: the transactional re-check of the reconciler compares against the
\* capacity the course has when the booking is inserted: after an insert by
\* a delivery that ran alone, while CoursesService.update and remove edit the
\* courses, the CONFIRMED bookings of the slot are no more than the capacity
\* the course has in the state the insert leaves.
C22_RecheckUsesStoredCapacity ==
    [][\A r \in Hooks :
         (hook[r].pc = "txCreate" /\ hook'[r].created # 0 /\ RanAlone(r)) =>
            LET c == hook[r].req.metadata.courseId
                d == ParseDate(hook[r].req.metadata.date) IN
            /\ c \in DOMAIN courses'
            /\ Cardinality({b \in bookings' : b.courseId = c /\ b.date = d
                                              /\ b.status = "CONFIRMED"})
                 <= courses'[c].capacity]_vars

\* C23: the metadata round trip.  Every session the initiator opened carries
\* the courseId, date and userId of the request and the bookingType
\* 'course_booking', its userId being the authenticated caller, and
\* validateSessionMetadata accepts it; the booking a delivery of that
\* session's payment creates has exactly that courseId, that userId and the
\* instant that date denotes.
C23_MetadataRoundTrip ==
    /\ \A s \in sessions :
         /\ s.metadata = Meta(co[s.id].body.courseId, co[s.id].body.date,
                              co[s.id].body.userId, "course_booking")
         /\ s.metadata.userId = co[s.id].auth
         /\ validateSessionMetadata(s.metadata) = NoError
    /\ \A r \in Hooks : hook[r].created # 0 =>
         \E s \in sessions :
            /\ hook[r].req = PaidEvent(s)
            /\ \E b \in bookings :
                 /\ b.id = hook[r].created
                 /\ b.courseId = co[s.id].body.courseId
                 /\ b.userId = co[s.id].auth
                 /\ b.date = ParseDate(co[s.id].body.date)

\* a paid session opened by u2 with the date written with milliseconds has
\* been reconciled into a booking
C23_Witness ==
    \E r \in Hooks, s \in sessions :
        /\ hook[r].created # 0
        /\ hook[r].req = PaidEvent(s)
        /\ co[s.id].auth = "u2"
        /\ co[s.id].body.date = "T1.000Z"
        /\ \E b \in bookings : b.id = hook[r].created

\* the session of a lookup contains a user with a non-empty string id, a
\* non-empty string email and a role in {ADMIN, CLIENT}
HasValidUser(lookup) ==
    /\ ~lookup.threw
    /\ lookup.session.kind = "object" /\ lookup.session.hasUser
    /\ lookup.session.user.id.t = "string" /\ lookup.session.user.id.v # ""
    /\ lookup.session.user.email.t = "string" /\ lookup.session.user.email.v # ""
    /\ lookup.session.user.role \in {Str("ADMIN"), Str("CLIENT")}

\* C24: a handler wrapped in withAuth is invoked only when the server
\* session contains a valid user; in every other case (no session, empty
\* session, invalid field, lookup error) it is not invoked and the response
\* is 401.  A handler wrapped in withAdminAuth is invoked only when the role
\* is ADMIN as well, and an authenticated non-admin gets 403.
C24_WrappersGuardHandlers ==
    \A i \in Apis : api[i].pc = "done" =>
        LET a == api[i] IN
        /\ a.invoked => HasValidUser(a.lookup)
        /\ ~HasValidUser(a.lookup) => ~a.invoked /\ a.status = 401
        /\ a.wrapper = "withAdminAuth" =>
             /\ a.invoked => a.lookup.session.user.role = Str("ADMIN")
             /\ (HasValidUser(a.lookup) /\ a.lookup.session.user.role # Str("ADMIN"))
                  => ~a.invoked /\ a.status = 403

\* user u has been deactivated or deleted
Gone(u) == u \notin users \/ ~accounts[u].isActive

\* C25: while a user's account is deactivated or deleted, every evaluation
\* of the session callback for that user's token yields an empty session,
\* and every request the user's browser makes to create-checkout-session is
\* rejected with 401 and opens no payment session; and the jwt callback,
\* when more than one hour has passed since its last check, returns an empty
\* token for such a user.
C25_DeactivatedIsLockedOut ==
    /\ [][\A i \in Apis :
            /\ ( /\ api[i].pc = "session" /\ api'[i].pc = "done"
                 /\ Gone(Owner[api[i].cookie]) )
               => /\ api[i].token.sub # "" => api'[i].lookup = Returned(EmptySession)
                  /\ api'[i].status = 401 /\ ~api'[i].invoked
                  /\ co'[api'[i].slot].status = 401
                  /\ sessions' = sessions
            /\ ( /\ api[i].pc = "idle" /\ api'[i].pc # "idle"
                 /\ jwt[api'[i].cookie].sub # ""
                 /\ Gone(jwt[api'[i].cookie].sub)
                 /\ clock - jwt[api'[i].cookie].lastCheck > Hour )
               => api'[i].token = EmptyToken]_vars
    /\ [](\A i \in Apis : (api[i].pc = "done" /\ ~api[i].invoked) =>
            \A s \in sessions : s.id # api[i].slot)

\* two requests of the browser of a deactivated user have been rejected: one
\* on the empty session of the session callback, one after the jwt callback
\* had emptied the token
C25_Witness ==
    /\ Gone("u1")
    /\ \E i \in Apis : /\ api[i].pc = "done" /\ api[i].status = 401
                       /\ api[i].token.sub = "u1"
                       /\ api[i].lookup = Returned(EmptySession)
    /\ \E i \in Apis : /\ api[i].pc = "done" /\ api[i].status = 401
                       /\ api[i].token = EmptyToken

\* call j returned a user object
ReturnedUser(j) == login[j].pc = "done" /\ "id" \in DOMAIN login[j].result

\* C26: authenticateUser returns a user object only when the credentials are
\* well-formed, a user with that email exists, the account is active and the
\* password matches; in every other case, a thrown error included, it
\* returns null; lastLoginAt is written only on the successful path; the
\* returned object never holds the password.
C26_SignInOnlyWithValidCredentials ==
    /\ [](\A j \in Logins : login[j].pc = "done" =>
            LET c == login[j].credentials
                r == login[j].result IN
            /\ ReturnedUser(j) =>
                 /\ loginSchemaAccepts(c)
                 /\ login[j].id \in UserIds
                 /\ login[j].row.email = Normalized(c.email)
                 /\ login[j].row.isActive
                 /\ compare(c.password, login[j].row.password)
                 /\ login[j].error = NoError
                 /\ r.id = login[j].id /\ r.email = login[j].row.email
            /\ ~ReturnedUser(j) => r = NullUser
            /\ "password" \notin DOMAIN r
            /\ login[j].wrote => ReturnedUser(j))
    /\ [][\A u \in UserIds :
            accounts'[u].lastLoginAt # accounts[u].lastLoginAt =>
               \E j \in Logins : /\ login[j].pc = "update" /\ login[j].id = u
                                 /\ login'[j].pc = "done"
                                 /\ "id" \in DOMAIN login'[j].result]_vars

\* one call signed u1 in with the address in capitals and wrote lastLoginAt;
\* another passed every check and then failed on the update of a removed row
C26_Witness ==
    /\ \E j \in Logins : /\ ReturnedUser(j)
                         /\ login[j].credentials.email = "U1@X"
                         /\ accounts["u1"].lastLoginAt # 0
    /\ \E j \in Logins : /\ login[j].pc = "done" /\ ~ReturnedUser(j)
                         /\ login[j].error = PrismaError("P2025")

\* C27: in the middleware, a request without a token to a path starting
\* with /admin, /dashboard, /profile or /bookings is not passed through but
\* redirected to /login with callbackUrl set to the requested path; a request
\* with a token to /login is redirected to /dashboard; a path under
\* /api/auth or /api/webhook is never redirected, with or without a token.
C27_MiddlewareRedirects ==
    \A n \in Requests : mw[n].pc = "done" =>
        LET p == mw[n].pathname
            r == mw[n].response IN
        /\ ( /\ mw[n].ran /\ mw[n].token = "null"
             /\ \/ startsWith(p, << "/", "admin" >>)
                \/ startsWith(p, << "/", "dashboard" >>)
                \/ startsWith(p, << "/", "profile" >>)
                \/ startsWith(p, << "/", "bookings" >>) )
           => /\ r.kind = "redirect"
              /\ r.location = << "/", "login" >>
              /\ r.callbackUrl = p
        /\ (mw[n].ran /\ mw[n].token = "token" /\ p = << "/", "login" >>)
           => r.kind = "redirect" /\ r.location = << "/", "dashboard" >>
        /\ ( \/ startsWith(p, << "/", "api", "/", "auth" >>)
             \/ startsWith(p, << "/", "api", "/", "webhook" >>) )
           => r.kind # "redirect"

\* /profile without a token was sent to /login, and another request was
\* either /login with a token, sent to /dashboard, or /api/webhook, which
\* went through the middleware unredirected
C27_Witness ==
    /\ \E n \in Requests : /\ mw[n].pc = "done" /\ mw[n].token = "null"
                           /\ mw[n].pathname = << "/", "profile" >>
                           /\ mw[n].response.callbackUrl = << "/", "profile" >>
    /\ \E n \in Requests : /\ mw[n].pc = "done" /\ mw[n].ran
                           /\ \/ /\ mw[n].pathname = << "/", "login" >>
                                 /\ mw[n].response.location = << "/", "dashboard" >>
                              \/ /\ mw[n].pathname = << "/", "api", "/", "webhook" >>
                                 /\ mw[n].response.kind = "next"

\* the middleware returned a response for request n
MiddlewareAnswered(n) == mw[n].pc = "done" /\ mw[n].ran

\* C28: every response the middleware returns, redirects included, carries
\* Content-Security-Policy, X-Frame-Options DENY, X-Content-Type-Options
\* nosniff, Referrer-Policy and X-Nonce; the nonce inside its
\* Content-Security-Policy equals its X-Nonce; and no two requests get the
\* same nonce.
C28_EveryResponseHasSecurityHeaders ==
    \A n \in Requests : MiddlewareAnswered(n) =>
        LET h == mw[n].response.headers IN
        /\ { "Content-Security-Policy", "X-Frame-Options", "X-Content-Type-Options",
             "Referrer-Policy", "X-Nonce" } \subseteq DOMAIN h
        /\ h["X-Frame-Options"] = "DENY"
        /\ h["X-Content-Type-Options"] = "nosniff"
        /\ h["Content-Security-Policy"].scriptSrcNonce = h["X-Nonce"]
        /\ h["Content-Security-Policy"].styleSrcNonce = h["X-Nonce"]
        /\ \A x \in Requests \ {n} :
              (MiddlewareAnswered(x) /\ "X-Nonce" \in DOMAIN mw[x].response.headers)
                 => mw[x].response.headers["X-Nonce"] # h["X-Nonce"]

====
